---- MODULE Spec2Model ----
(***************************************************************************)
(* Verification model of the guee GUI core: the per-frame driver           *)
(* (Context::run), the input state machine (InputState / ButtonStateMap),  *)
(* the focus/drag arbiter (InputWidgetState) and the callback subsystem    *)
(* (DispatchedCallbackStorage / AccessorRegistry).                         *)
(***************************************************************************)
EXTENDS Integers, Sequences, FiniteSets, Bags, TLC

(***************************************************************************)
(* Bounds of the model.                                                    *)
(***************************************************************************)
\* Cursor positions live on a grid {0..MaxX}*StepX  x  {0..MaxY}*StepY.
MaxX == 1
MaxY == 1
StepX == 4
StepY == 2
\* Largest number of events the event source buffers between two runs.
MaxBuf == 2
\* Largest number of events per frame in the click specification.
MaxClickBuf == 4
\* Largest number of focus calls in the focus specification.
MaxCalls == 4
\* Largest payload value and largest number of callbacks queued in a frame.
MaxPayload == 2
MaxQueue == 2
\* Largest number of projections in a registry.
MaxEdges == 4
\* Largest number of events the window system delivers in a behaviour.
MaxEvents == 3
\* Largest number of events buffered between two runs over the widget tree.
MaxTreeBuf == 3
\* Largest number of events buffered between two runs with one button.
MaxClaimBuf == 2
\* Largest number of poll tokens handed out in a frame.
MaxTokens == 3
MaxValue == 1
MaxHandles == 1
\* Largest magnitude, in halves, of a value a DragValue emits.
MaxDragValue == 6
\* Largest number of CallbackAccessor values the application holds.
MaxAccessors == 4
\* Largest number of children of a container in the widget trees whose
\* identities are followed.
MaxSiblings == 2

\* DRAG_THRESHOLD_PX of ButtonStateMap::on_mouse_moved.
DRAG_THRESHOLD_PX == 4

None == "none"

\* Option<T>: <<>> is None, <<x>> is Some(x)
Nothing == <<>>
Some(x) == <<x>>

\* No call was made by the last step.
NoRet == [op |-> "none"]

\* MouseButton: two of the enum's variants.
Buttons == {"Primary", "Secondary"}

\* WidgetId values of the widgets declared in the tree.
Widgets == {"w1", "w2"}

\* Pos2 values the cursor can take.
Pos == {<<StepX * i, StepY * j>> : i \in 0..MaxX, j \in 0..MaxY}

\* Rect values widgets pass as hit rectangles.
Rects == {[min |-> p, max |-> q] : p \in Pos, q \in Pos}
           \ {r \in [min : Pos, max : Pos] : r.min[1] > r.max[1] \/ r.min[2] > r.max[2]}

\* TranslateScale values in force while a widget handles events: the
\* identity and a vertical translation as set by VScrollContainer.
Transforms == {[translation |-> <<0, 0>>, scale |-> 1],
               [translation |-> <<0, StepY>>, scale |-> 1]}

VARIABLES
    mouse_position,   \* InputState.mouse.position
    button_state,     \* InputState.mouse.button_state.state : MouseButton -> ButtonState
    ev_buffer,        \* InputState.ev_buffer
    focus,            \* InputWidgetState.focus
    drag,             \* InputWidgetState.drag
    accessors,        \* AccessorRegistry.accessors: the keys in iteration order
    cbas,             \* the CallbackAccessor values the application holds
    external,         \* DispatchedCallbackStorage.external
    internal,         \* DispatchedCallbackStorage.internal
    next_token,       \* DispatchedCallbackStorage.next_token
    app,              \* the application state handed to Context::run
    memory,           \* Memory.widget_memory : (WidgetId, TypeId) -> value
    handles,          \* the live Ref / RefMut handles of Memory.widget_memory
    layout,           \* what the layout pass left for on_event
    pass,             \* the on_event pass: its status flag and the next child
    pc,               \* position of Context::run ("idle" between two runs)
    events,           \* the `events` local of Context::run
    ret,              \* the call made by the last step and its return value
    hist              \* history variables the properties are stated over

inputVars == <<mouse_position, button_state, ev_buffer>>
arbiterVars == <<focus, drag>>
runVars == <<pc, events>>
cbVars == <<accessors, cbas, external, internal, next_token, app>>
treeVars == <<memory, handles, layout, pass>>

vars == <<inputVars, arbiterVars, runVars, cbVars, treeVars, ret, hist>>

(***************************************************************************)
(* input.rs: ClickDragState / ButtonState / ButtonStateMap                 *)
(***************************************************************************)
Idle == [kind |-> "Idle"]
Clicked(p) == [kind |-> "Clicked", pos |-> p]
DragJustStarted(p) == [kind |-> "DragJustStarted", pos |-> p]
Dragged(p) == [kind |-> "Dragged", pos |-> p]

\* ButtonState::default()
DefaultButtonState ==
    [down |-> FALSE, drag_state |-> Idle, just_pressed |-> FALSE,
     just_released |-> FALSE, just_clicked |-> FALSE]

\* self.state.entry(button).or_default()
Entry(bs, button) == IF button \in DOMAIN bs THEN bs[button] ELSE DefaultButtonState

Insert(bs, button, e) ==
    [b \in (DOMAIN bs) \cup {button} |-> IF b = button THEN e ELSE bs[b]]

\* Pos2::distance(a, b) > d, compared on the squares
DistanceGreater(a, b, d) ==
    (a[1] - b[1]) * (a[1] - b[1]) + (a[2] - b[2]) * (a[2] - b[2]) > d * d

is_down(bs, button) == IF button \in DOMAIN bs THEN bs[button].down ELSE FALSE

is_pressed(bs, button) == IF button \in DOMAIN bs THEN bs[button].just_pressed ELSE FALSE

is_released(bs, button) == IF button \in DOMAIN bs THEN ~bs[button].just_released ELSE FALSE

is_clicked(bs, button) == IF button \in DOMAIN bs THEN bs[button].just_clicked ELSE FALSE

\* Variant of is_dragging that also reports a press that has not moved yet.
is_dragging_clicked(bs, button) ==
    IF button \in DOMAIN bs /\ bs[button].drag_state.kind # "Idle"
    THEN Some(bs[button].drag_state.pos)
    ELSE Nothing

is_dragging(bs, button) ==
    IF button \in DOMAIN bs /\ bs[button].drag_state.kind \in {"DragJustStarted", "Dragged"}
    THEN Some(bs[button].drag_state.pos)
    ELSE Nothing

dragging_just_started(bs, button) ==
    IF button \in DOMAIN bs THEN bs[button].drag_state.kind = "DragJustStarted" ELSE FALSE

\* Variant of on_mouse_pressed that does not record the button as down.
on_mouse_pressed_up(bs, button, cursor_pos) ==
    Insert(bs, button,
           [Entry(bs, button) EXCEPT !.just_pressed = TRUE,
                                     !.drag_state = Clicked(cursor_pos)])

on_mouse_pressed(bs, button, cursor_pos) ==
    Insert(bs, button,
           [Entry(bs, button) EXCEPT !.just_pressed = TRUE,
                                     !.down = TRUE,
                                     !.drag_state = Clicked(cursor_pos)])

\* Variant of on_mouse_released that also counts a drag that has just started
\* as a click.
on_mouse_released_drag_clicks(bs, button) ==
    LET entry == Entry(bs, button) IN
    Insert(bs, button,
           [entry EXCEPT !.just_released = TRUE,
                         !.down = FALSE,
                         !.just_clicked = IF entry.drag_state.kind \in {"Clicked", "DragJustStarted"}
                                          THEN TRUE ELSE entry.just_clicked,
                         !.drag_state = Idle])

on_mouse_released(bs, button) ==
    LET entry == Entry(bs, button) IN
    Insert(bs, button,
           [entry EXCEPT !.just_released = TRUE,
                         !.down = FALSE,
                         !.just_clicked = IF entry.drag_state.kind = "Clicked"
                                          THEN TRUE ELSE entry.just_clicked,
                         !.drag_state = Idle])

on_mouse_moved(bs, cursor_pos) ==
    [b \in DOMAIN bs |->
        IF /\ bs[b].drag_state.kind = "Clicked"
           /\ DistanceGreater(bs[b].drag_state.pos, cursor_pos, DRAG_THRESHOLD_PX)
        THEN [bs[b] EXCEPT !.drag_state = DragJustStarted(bs[b].drag_state.pos)]
        ELSE bs[b]]

\* Variant of end_frame that leaves a drag that has just started as it is.
button_end_frame_kept(bs) ==
    [b \in DOMAIN bs |->
        [bs[b] EXCEPT !.just_pressed = FALSE,
                      !.just_released = FALSE,
                      !.just_clicked = FALSE]]

\* ButtonStateMap::end_frame
button_end_frame(bs) ==
    [b \in DOMAIN bs |->
        [bs[b] EXCEPT !.just_pressed = FALSE,
                      !.just_released = FALSE,
                      !.just_clicked = FALSE,
                      !.drag_state = IF bs[b].drag_state.kind = "DragJustStarted"
                                     THEN Dragged(bs[b].drag_state.pos)
                                     ELSE bs[b].drag_state]]

(***************************************************************************)
(* input.rs: events of the window system                                   *)
(***************************************************************************)
MouseMoved(p) == [type |-> "MouseMoved", pos |-> p]
MousePressed(b) == [type |-> "MousePressed", button |-> b]
MouseReleased(b) == [type |-> "MouseReleased", button |-> b]

MouseEvents ==
    {MouseMoved(p) : p \in Pos} \cup {MousePressed(b) : b \in Buttons}
        \cup {MouseReleased(b) : b \in Buttons}

\* One button, and the cursor at the press position, exactly StepX away from
\* it and further away.
ClickEvents ==
    {MousePressed("Primary"), MouseReleased("Primary")}
        \cup {MouseMoved(p) : p \in {<<0, 0>>, <<StepX, 0>>, <<StepX, StepY>>}}

\* Keyboard input with or without a virtual keycode, received characters
\* (a letter, a tab, a private-use code point) and a resize.
KeyboardInput(st, keycode) == [type |-> "KeyboardInput", state |-> st, keycode |-> keycode]
ReceivedCharacter(ch) == [type |-> "ReceivedCharacter", ch |-> ch]
Resized == [type |-> "Resized"]

Chars == {97, 9, 57344}

KeyEvents ==
    {KeyboardInput(st, k) : st \in {"Pressed", "Released"}, k \in {Nothing, Some("A")}}
        \cup {ReceivedCharacter(ch) : ch \in Chars} \cup {Resized}

is_printable_char(chr) ==
    LET is_in_private_use_area ==
            \/ chr \in 57344..63743
            \/ chr \in 983040..1048573
            \/ chr \in 1048576..1114109
        is_ascii_control == chr \in 0..31 \/ chr = 127
    IN ~is_in_private_use_area /\ ~is_ascii_control

\* The events on_winit_event pushes to ev_buffer for a window event.
Pushed(ev) ==
    CASE ev.type \in {"MouseMoved", "MousePressed", "MouseReleased"} -> <<ev>>
      [] ev.type = "KeyboardInput" ->
             IF ev.keycode = Nothing THEN <<>>
             ELSE <<[type |-> IF ev.state = "Pressed" THEN "KeyPressed" ELSE "KeyReleased",
                     key |-> ev.keycode[1]]>>
      [] ev.type = "ReceivedCharacter" ->
             IF is_printable_char(ev.ch) THEN <<[type |-> "Text", ch |-> ev.ch]>> ELSE <<>>
      [] OTHER -> <<>>

\* InputState::on_winit_event, reached through Context::on_winit_event.
\* The event source is only polled between two runs.
on_winit_event(ev) ==
    /\ pc = "idle"
    /\ ev_buffer' = ev_buffer \o Pushed(ev)
    /\ CASE ev.type = "MouseMoved" ->
              /\ mouse_position' = ev.pos
              /\ button_state' = on_mouse_moved(button_state, ev.pos)
              /\ drag' = drag
         [] ev.type = "MousePressed" ->
              /\ button_state' = on_mouse_pressed(button_state, ev.button, mouse_position)
              /\ UNCHANGED <<mouse_position, drag>>
         [] ev.type = "MouseReleased" ->
              /\ button_state' = on_mouse_released(button_state, ev.button)
              /\ drag' = None
              /\ mouse_position' = mouse_position
         [] OTHER -> UNCHANGED <<mouse_position, button_state, drag>>
    /\ ret' = NoRet
    /\ UNCHANGED <<focus, runVars, cbVars, treeVars>>

(***************************************************************************)
(* painter.rs / context.rs: the drag arbiter                               *)
(***************************************************************************)
\* TranslateScale::transform_point
transform_point(t, point) ==
    <<point[1] * t.scale + t.translation[1], point[2] * t.scale + t.translation[2]>>

\* Rect::contains
Contains(rect, p) ==
    /\ rect.min[1] <= p[1] /\ p[1] <= rect.max[1]
    /\ rect.min[2] <= p[2] /\ p[2] <= rect.max[2]

\* Variant of claim_drag_event that tests the drag position without the
\* cursor transform.
claim_drag_event_untransformed(holder, bs, t, widget_id, rect, mouse_button) ==
    LET drag_opt == is_dragging(bs, mouse_button) IN
    IF holder # None
    THEN IF holder = widget_id THEN <<holder, drag_opt # Nothing>> ELSE <<holder, FALSE>>
    ELSE IF drag_opt # Nothing /\ Contains(rect, drag_opt[1])
         THEN <<widget_id, TRUE>>
         ELSE <<holder, FALSE>>

\* Context::claim_drag_event: the pair <<new holder, return value>>
claim_drag_event(holder, bs, t, widget_id, rect, mouse_button) ==
    LET drag_opt == is_dragging(bs, mouse_button) IN
    IF holder # None
    THEN IF holder = widget_id THEN <<holder, drag_opt # Nothing>> ELSE <<holder, FALSE>>
    ELSE IF drag_opt # Nothing /\ Contains(rect, transform_point(t, drag_opt[1]))
         THEN <<widget_id, TRUE>>
         ELSE <<holder, FALSE>>

\* A widget calls ctx.claim_drag_event from its on_event, under the cursor
\* transform t its ancestors have set.
ClaimDrag(w, rect, b, t) ==
    /\ pc = "on_event"
    /\ LET r == claim_drag_event(drag, button_state, t, w, rect, b) IN
         /\ drag' = r[1]
         /\ ret' = [op |-> "claim_drag_event", by |-> w, button |-> b, result |-> r[2]]
    /\ UNCHANGED <<inputVars, focus, runVars, cbVars, treeVars>>

(***************************************************************************)
(* context.rs: focus                                                       *)
(***************************************************************************)
\* Context::request_focus: the new value of InputWidgetState.focus
request_focus(f, widget_id) == widget_id

\* Variant of release_focus that clears the focus whoever holds it.
release_focus_any(f, widget_id) == None

\* Context::release_focus: the new value of InputWidgetState.focus
release_focus(f, widget_id) == IF f # None /\ f = widget_id THEN None ELSE f

is_focused(f, widget_id) == f # None /\ widget_id = f

RequestFocus(w) ==
    /\ pc = "on_event"
    /\ focus' = request_focus(focus, w)
    /\ ret' = NoRet
    /\ UNCHANGED <<inputVars, drag, runVars, cbVars, treeVars>>

ReleaseFocus(w) ==
    /\ pc = "on_event"
    /\ focus' = release_focus(focus, w)
    /\ ret' = NoRet
    /\ UNCHANGED <<inputVars, drag, runVars, cbVars, treeVars>>

(***************************************************************************)
(* callback.rs: application state, callbacks and the accessor registry     *)
(***************************************************************************)
\* The state types of tests::test_accessor_regitry, and one type no
\* projection leads to.
Types == {"State", "Foo", "Bar", "Baz"}
Unregistered == "Qux"

\* State::default()
DefaultState == [foo |-> [baz |-> [y |-> 0]], bar |-> [x |-> 0]]

\* (*state).type_id() of the root state
RootType == "State"

\* The three register_accessor calls of the test: the projection of each
\* (source, target) key is the chain of fields it borrows.
TestRegistry ==
    {[src |-> "State", dst |-> "Foo", field |-> <<"foo">>],
     [src |-> "State", dst |-> "Bar", field |-> <<"bar">>],
     [src |-> "Foo", dst |-> "Baz", field |-> <<"baz">>]}

\* The orders a HashMap holding the keys of a registry can iterate them in.
Orders(registry) ==
    {o \in [1..Cardinality(registry) -> registry] :
        \A i, j \in 1..Cardinality(registry) : i # j => o[i] # o[j]}

\* The closures the callbacks are built from: each writes its payload into a
\* field of the state type it is typed for.
CallbackFns ==
    {[input_type |-> "State", body |-> <<"bar", "x">>],
     [input_type |-> "Foo", body |-> <<"baz", "y">>],
     [input_type |-> "Bar", body |-> <<"x">>],
     [input_type |-> "Baz", body |-> <<"y">>],
     [input_type |-> Unregistered, body |-> <<"z">>]}

Payloads == 1..MaxPayload

\* Every projection that can be registered between the state types, and the
\* registries of at most MaxEdges of them in each iteration order of their
\* keys.
Edges == {[src |-> a, dst |-> b, field |-> <<"f">>] : a, b \in Types}

Registries ==
    UNION {{o \in [1..n -> Edges] : \A i, j \in 1..n : i # j => o[i] # o[j]} :
           n \in 0..MaxEdges}

RECURSIVE Get(_, _)
\* the sub-state a chain of field borrows reaches
Get(s, fields) == IF fields = <<>> THEN s ELSE Get(s[Head(fields)], Tail(fields))

RECURSIVE Put(_, _, _)
\* the state after a write through a chain of field borrows
Put(s, fields, v) ==
    IF fields = <<>> THEN v ELSE [s EXCEPT ![Head(fields)] = Put(@, Tail(fields), v)]

Reverse(q) == [i \in 1..Len(q) |-> q[Len(q) + 1 - i]]

RECURSIVE recursive(_, _, _, _), recursive_for(_, _, _, _, _)
\* The inner fn of AccessorRegistry::find_path. The result is Some(path, in
\* reverse), None or the "Should be a DAG" panic, with the visited set as the
\* call leaves it.
recursive(acc, current, target, visited) ==
    LET v == visited \cup {current} IN
    IF current = target
    THEN [kind |-> "some", path |-> <<current>>, visited |-> v]
    ELSE recursive_for(acc, 1, current, target, v)

\* its loop `for (src, dst) in this.accessors.keys()`, from the i-th key on
recursive_for(acc, i, current, target, visited) ==
    IF i > Len(acc)
    THEN [kind |-> "none", path |-> <<>>, visited |-> visited]
    ELSE IF current = acc[i].src
         THEN IF acc[i].dst \in visited
              THEN [kind |-> "panic", path |-> <<>>, visited |-> visited]
              ELSE LET r == recursive(acc, acc[i].dst, target, visited) IN
                   CASE r.kind = "some" ->
                          [kind |-> "some", path |-> Append(r.path, current),
                           visited |-> r.visited]
                     [] r.kind = "panic" -> r
                     [] OTHER -> recursive_for(acc, i + 1, current, target, r.visited)
         ELSE recursive_for(acc, i + 1, current, target, visited)

\* Variant of find_path that forgets to reverse the path it found.
find_path_unreversed(acc, from_typ, to_typ) ==
    LET r == recursive(acc, from_typ, to_typ, {}) IN
    CASE r.kind = "some" -> [kind |-> "path", path |-> r.path]
      [] r.kind = "panic" -> [kind |-> "panic_dag", path |-> <<>>]
      [] OTHER -> [kind |-> "panic_no_accessor", path |-> <<>>]

\* AccessorRegistry::find_path
find_path(acc, from_typ, to_typ) ==
    LET r == recursive(acc, from_typ, to_typ, {}) IN
    CASE r.kind = "some" -> [kind |-> "path", path |-> Reverse(r.path)]
      [] r.kind = "panic" -> [kind |-> "panic_dag", path |-> <<>>]
      [] OTHER -> [kind |-> "panic_no_accessor", path |-> <<>>]

\* self.accessors[&(src, dst)]
Accessor(acc, src, dst) == {i \in 1..Len(acc) : acc[i].src = src /\ acc[i].dst = dst}

\* the borrows of the accessor_fn of each hop, applied one after the other
RECURSIVE Chain(_)
Chain(hops) == IF hops = <<>> THEN <<>> ELSE Head(hops) \o Chain(Tail(hops))

\* AccessorRegistry::access: the chain of field borrows from the root to the
\* requested type, or the panic of the path search or of the key lookup
access(acc, from_typ, to_typ) ==
    LET found == find_path(acc, from_typ, to_typ) IN
    IF found.kind # "path" THEN [kind |-> found.kind, fields |-> <<>>]
    ELSE LET path == found.path
             hops == 1..(Len(path) - 1) IN
         IF \E k \in hops : Accessor(acc, path[k], path[k + 1]) = {}
         THEN [kind |-> "panic_no_key", fields |-> <<>>]
         ELSE [kind |-> "ok",
               fields |-> Chain([k \in hops |->
                   acc[CHOOSE i \in Accessor(acc, path[k], path[k + 1]) : TRUE].field])]

\* AccessorRegistry::invoke_callback on a dispatched callback cd
invoke_callback(acc, state, cd) ==
    IF RootType = cd.input_type
    THEN [error |-> "none", state |-> Put(state, cd.body, cd.payload)]
    ELSE LET projected == access(acc, RootType, cd.input_type) IN
         IF projected.kind # "ok"
         THEN [error |-> projected.kind, state |-> state]
         ELSE [error |-> "none",
               state |-> Put(state, projected.fields,
                             Put(Get(state, projected.fields), cd.body, cd.payload))]

\* DispatchedExternalCallback::new
DispatchedExternalCallback(c, payload) ==
    [input_type |-> c.input_type, body |-> c.body, payload |-> payload]

\* Variant of dispatch_callback that runs an external callback on the spot
\* instead of queueing it.
dispatch_callback_eager(ext, state, acc, c, payload) ==
    [external |-> ext,
     state |-> invoke_callback(acc, state, DispatchedExternalCallback(c, payload)).state]

\* DispatchedCallbackStorage::dispatch_callback, Callback::External
dispatch_callback(ext, state, acc, c, payload) ==
    [external |-> Append(ext, DispatchedExternalCallback(c, payload)),
     state |-> state]

RECURSIVE drain(_, _, _, _)
\* the loop of end_frame over self.external.drain(..): the callbacks invoked
\* so far are collected in calls; a panic drops the rest of the queue
drain(queue, state, acc, calls) ==
    IF queue = <<>>
    THEN [external |-> <<>>, state |-> state, calls |-> calls, error |-> "none"]
    ELSE LET r == invoke_callback(acc, state, Head(queue)) IN
         IF r.error # "none"
         THEN [external |-> <<>>, state |-> state, calls |-> calls, error |-> r.error]
         ELSE drain(Tail(queue), r.state, acc, Append(calls, Head(queue)))

\* Variant of end_frame that takes the queued callbacks from the back.
end_frame_lifo(ext, state, acc) == drain(Reverse(ext), state, acc, <<>>)

\* DispatchedCallbackStorage::end_frame
end_frame(ext, state, acc) == drain(ext, state, acc, <<>>)

\* A caller asks the registry for the path from the root type to to_typ.
FindPath(to_typ) ==
    /\ ret' = [op |-> "find_path", to |-> to_typ,
               result |-> find_path(accessors, RootType, to_typ)]
    /\ UNCHANGED <<inputVars, arbiterVars, runVars, cbVars, treeVars>>

\* A widget calls ctx.dispatch_callback with an external callback from its
\* on_event.
DispatchExternal(c, payload) ==
    /\ pc = "on_event"
    /\ LET r == dispatch_callback(external, app, accessors, c, payload) IN
         /\ external' = r.external
         /\ app' = r.state
    /\ ret' = NoRet
    /\ UNCHANGED <<inputVars, arbiterVars, runVars, accessors, cbas, internal, next_token, treeVars>>

(***************************************************************************)
(* memory.rs and the internal callbacks of callback.rs                     *)
(***************************************************************************)
\* Variant of Memory::key that leaves the type of the value out of the key.
key_of_id(id, typ) == <<id, "T">>

\* Memory::key
Key(id, typ) == <<id, typ>>

\* Variant of Memory::set that keeps the value of a key that is present.
set_if_absent(mem, key, t) ==
    [k \in DOMAIN mem \cup {key} |-> IF k \in DOMAIN mem THEN mem[k] ELSE t]

\* Memory::set
set(mem, key, t) == [k \in DOMAIN mem \cup {key} |-> IF k = key THEN t ELSE mem[k]]

\* Variant of Memory::ensure that stores the value whether or not the key
\* is present.
ensure_overwrite(mem, key, t) == set(mem, key, t)

\* Memory::ensure
ensure(mem, key, t) == IF key \in DOMAIN mem THEN mem ELSE set(mem, key, t)

\* RefCell::borrow succeeds unless a RefMut is live, RefCell::borrow_mut
\* unless any handle is live. live is the bag of the handles that are live.
can_borrow(live) == \A h \in BagToSet(live) : ~h.mutable
can_borrow_mut(live) == live = EmptyBag

\* the handle get and get_mut hand out: a Ref or a RefMut mapped to one entry
Handle(key, mutable) == [key |-> key, mutable |-> mutable]

\* The outcome of a call on the memory: the panic it ended with or "none",
\* the entries it leaves and the handle it returns.
Outcome(error, mem, handle) == [error |-> error, memory |-> mem, handle |-> handle]

\* Variant of the call of Memory::set that drops every other entry.
call_set_alone(mem, live, key, t) ==
    IF ~can_borrow_mut(live) THEN Outcome("already_borrowed", mem, Nothing)
    ELSE Outcome("none", [k \in {key} |-> t], Nothing)

\* Memory::set as a call: the insert needs widget_memory.borrow_mut()
call_set(mem, live, key, t) ==
    IF ~can_borrow_mut(live) THEN Outcome("already_borrowed", mem, Nothing)
    ELSE Outcome("none", set(mem, key, t), Nothing)

\* Memory::ensure as a call: contains_key under widget_memory.borrow(), and
\* self.set when the key is missing
call_ensure(mem, live, key, t) ==
    LET ensured == ensure(mem, key, t) IN
    IF ~can_borrow(live) THEN Outcome("already_mutably_borrowed", mem, Nothing)
    ELSE IF ensured # mem /\ ~can_borrow_mut(live)
         THEN Outcome("already_borrowed", mem, Nothing)
         ELSE Outcome("none", ensured, Nothing)

\* Variant of Memory::get that hands out a handle to a fresh default entry
\* when the key is missing.
get_or_insert(mem, live, key) ==
    IF ~can_borrow(live) THEN Outcome("already_mutably_borrowed", mem, Nothing)
    ELSE Outcome("none", ensure(mem, key, 0), Some(Handle(key, FALSE)))

\* Memory::get
get(mem, live, key) ==
    IF ~can_borrow(live) THEN Outcome("already_mutably_borrowed", mem, Nothing)
    ELSE IF key \notin DOMAIN mem THEN Outcome("no_value_for_given_id", mem, Nothing)
    ELSE Outcome("none", mem, Some(Handle(key, FALSE)))

\* Variant of Memory::get_mut that hands out the handle whatever handles are
\* live.
get_mut_unchecked(mem, live, key) ==
    IF key \notin DOMAIN mem THEN Outcome("unwrap_on_none", mem, Nothing)
    ELSE Outcome("none", mem, Some(Handle(key, TRUE)))

\* Memory::get_mut
get_mut(mem, live, key) ==
    IF ~can_borrow_mut(live) THEN Outcome("already_borrowed", mem, Nothing)
    ELSE IF key \notin DOMAIN mem THEN Outcome("unwrap_on_none", mem, Nothing)
    ELSE Outcome("none", mem, Some(Handle(key, TRUE)))

\* Memory::get_or
get_or(mem, live, key, t) ==
    LET ensured == call_ensure(mem, live, key, t) IN
    IF ensured.error # "none" THEN ensured ELSE get(ensured.memory, live, key)

\* Memory::get_mut_or
get_mut_or(mem, live, key, t) ==
    LET ensured == call_ensure(mem, live, key, t) IN
    IF ensured.error # "none" THEN ensured ELSE get_mut(ensured.memory, live, key)

\* A call on the memory made by a widget or by the application: the entries
\* and the live handles after it, the panic that ends the run, and the value
\* read through the handle it returned.
MemCall(op, key, arg, out) ==
    /\ pc # "panicked"
    /\ memory' = out.memory
    /\ handles' = IF out.handle = Nothing THEN handles
                  ELSE handles (+) SetToBag({out.handle[1]})
    /\ pc' = IF out.error = "none" THEN pc ELSE "panicked"
    /\ ret' = [op |-> op, key |-> key, arg |-> arg, error |-> out.error,
               result |-> IF out.handle = Nothing THEN Nothing
                          ELSE Some(out.memory[key])]
    /\ UNCHANGED <<inputVars, arbiterVars, events, cbVars, layout, pass>>

MemSet(id, typ, t) ==
    MemCall("set", Key(id, typ), Some(t), call_set(memory, handles, Key(id, typ), t))

MemEnsure(id, typ, t) ==
    MemCall("ensure", Key(id, typ), Some(t),
            call_ensure(memory, handles, Key(id, typ), t))

MemGet(id, typ) ==
    MemCall("get", Key(id, typ), Nothing, get(memory, handles, Key(id, typ)))

MemGetMut(id, typ) ==
    MemCall("get_mut", Key(id, typ), Nothing, get_mut(memory, handles, Key(id, typ)))

MemGetOr(id, typ, t) ==
    MemCall("get_or", Key(id, typ), Some(t), get_or(memory, handles, Key(id, typ), t))

MemGetMutOr(id, typ, t) ==
    MemCall("get_mut_or", Key(id, typ), Some(t),
            get_mut_or(memory, handles, Key(id, typ), t))

\* An assignment through a live RefMut handle h
WriteHandle(h, t) ==
    /\ pc # "panicked"
    /\ BagIn(h, handles)
    /\ h.mutable
    /\ memory' = [memory EXCEPT ![h.key] = t]
    /\ ret' = [op |-> "write", key |-> h.key, arg |-> Some(t), error |-> "none",
               result |-> Nothing]
    /\ UNCHANGED <<inputVars, arbiterVars, runVars, cbVars, handles, layout, pass>>

\* A live handle h goes out of scope
DropHandle(h) ==
    /\ pc # "panicked"
    /\ BagIn(h, handles)
    /\ handles' = handles (-) SetToBag({h})
    /\ ret' = [op |-> "drop", key |-> h.key, arg |-> Nothing, error |-> "none",
               result |-> Nothing]
    /\ UNCHANGED <<inputVars, arbiterVars, runVars, cbVars, memory, layout, pass>>

Unit == "unit"

\* DispatchedCallbackStorage::create_internal_callback
create_internal_callback(next) == [token |-> next, next_token |-> next + 1]

\* DispatchedCallbackStorage::dispatch_callback, Callback::Internal
dispatch_internal(int, token, payload) ==
    [t \in DOMAIN int \cup {token} |-> IF t = token THEN payload ELSE int[t]]

\* Variant of poll_callback_result that reads the payload and leaves it in
\* storage.
poll_callback_result_peek(int, tk) ==
    [result |-> IF tk \in DOMAIN int THEN Some(int[tk]) ELSE Nothing,
     internal |-> int]

\* DispatchedCallbackStorage::poll_callback_result
poll_callback_result(int, tk) ==
    [result |-> IF tk \in DOMAIN int THEN Some(int[tk]) ELSE Nothing,
     internal |-> [t \in DOMAIN int \ {tk} |-> int[t]]]

\* Variant of the clearing of the internal storage that keeps the payloads.
internal_keep(int) == int

\* self.internal.clear() of DispatchedCallbackStorage::end_frame
internal_clear(int) == <<>>

\* A widget calls ctx.create_internal_callback from its layout or on_event.
CreateInternal ==
    /\ pc \in {"layout", "on_event"}
    /\ LET r == create_internal_callback(next_token) IN
         /\ next_token' = r.next_token
         /\ ret' = [op |-> "create_internal_callback", tk |-> r.token]
    /\ UNCHANGED <<inputVars, arbiterVars, runVars, accessors, cbas, external, internal, app,
                   treeVars>>

\* A widget calls ctx.dispatch_callback with the internal callback of token tk.
DispatchInternal(tk, payload) ==
    /\ pc = "on_event"
    /\ internal' = dispatch_internal(internal, tk, payload)
    /\ ret' = NoRet
    /\ UNCHANGED <<inputVars, arbiterVars, runVars, accessors, cbas, external, next_token, app,
                   treeVars>>

\* A widget calls ctx.poll_callback_result.
Poll(tk) ==
    /\ pc = "on_event"
    /\ LET r == poll_callback_result(internal, tk) IN
         /\ internal' = r.internal
         /\ ret' = [op |-> "poll_callback_result", tk |-> tk, result |-> r.result]
    /\ UNCHANGED <<inputVars, arbiterVars, runVars, accessors, cbas, external, next_token, app,
                   treeVars>>

(***************************************************************************)
(* base_widgets: the on_event pass over a root container that holds a      *)
(* Button and a MenubarButton with one option. The widget tree is built    *)
(* anew for every run, so every button has its callback when the pass      *)
(* starts.                                                                 *)
(***************************************************************************)
MenuKey == Key("menu", "MenubarButtonState")

\* layout.bounds of the button, of the menu's outer button and of the menu's
\* option button (below the outer button)
PointRect(p) == [min |-> p, max |-> p]
ButtonBounds == PointRect(<<0, 0>>)
OuterBounds == PointRect(<<StepX, 0>>)
OptionBounds == PointRect(<<StepX, StepY>>)

\* the callbacks the application gave the button and the menu
OnClick == [input_type |-> "State", body |-> <<"bar", "x">>]
OnOptionSelected == [input_type |-> "State", body |-> <<"foo", "baz", "y">>]

NoLayout == [children |-> 0, inner_poll_token |-> 0, outer_poll_token |-> 0]

\* MenubarButton::layout: the poll tokens of the inner widgets, the state
\* kept in memory and the children laid out
menubar_layout(mem, next) ==
    LET inner == create_internal_callback(next)
        outer == create_internal_callback(inner.next_token)
        mem1 == ensure(mem, MenuKey, [is_open |-> FALSE])
    IN [memory |-> mem1,
        next_token |-> outer.next_token,
        layout |-> [children |-> IF mem1[MenuKey].is_open THEN 2 ELSE 1,
                    inner_poll_token |-> inner.token,
                    outer_poll_token |-> outer.token]]

\* Button::on_event: the status it leaves, and whether it dispatched on_click
button_on_event(bounds, cursor_position, evs, event_status) ==
    IF event_status = "Consumed"
    THEN [status |-> event_status, dispatched |-> FALSE]
    ELSE IF /\ Contains(bounds, cursor_position)
            /\ \E i \in 1..Len(evs) : evs[i] = MousePressed("Primary")
         THEN [status |-> "Consumed", dispatched |-> TRUE]
         ELSE [status |-> event_status, dispatched |-> FALSE]

\* The root container hands the batch and the shared status to its first
\* child, the Button.
VisitButton ==
    /\ pc = "on_event"
    /\ pass.next = 1
    /\ LET r == button_on_event(ButtonBounds, mouse_position, events, pass.status)
           d == dispatch_callback(external, app, accessors, OnClick, 1) IN
         /\ external' = IF r.dispatched THEN d.external ELSE external
         /\ app' = IF r.dispatched THEN d.state ELSE app
         /\ pass' = [status |-> r.status, next |-> 2]
    /\ ret' = NoRet
    /\ UNCHANGED <<inputVars, arbiterVars, runVars, accessors, cbas, internal, next_token,
                   memory, handles, layout>>

\* The root container hands the batch and the shared status to its second
\* child: MenubarButton::on_event, on_option_selected being Some or None.
VisitMenubar(has_on_option_selected) ==
    /\ pc = "on_event"
    /\ pass.next = 2
    /\ LET \* outer button, with a status of its own
           b0 == button_on_event(OuterBounds, mouse_position, events, "Ignored")
           int0 == IF b0.dispatched
                   THEN dispatch_internal(internal, layout.outer_poll_token, Unit)
                   ELSE internal
           p0 == poll_callback_result(int0, layout.outer_poll_token)
           opened == p0.result # Nothing
           open1 == IF opened THEN TRUE ELSE memory[MenuKey].is_open
           st1 == IF opened THEN "Consumed" ELSE pass.status
           \* inner contents, with a status of their own
           enter == open1 /\ layout.children > 1
           b1 == button_on_event(OptionBounds, mouse_position, events, "Ignored")
           int1 == IF enter /\ b1.dispatched
                   THEN dispatch_internal(p0.internal, layout.inner_poll_token, Unit)
                   ELSE p0.internal
           p1 == IF enter THEN poll_callback_result(int1, layout.inner_poll_token)
                 ELSE [result |-> Nothing, internal |-> int1]
           selected == p1.result # Nothing
           open2 == IF selected THEN FALSE ELSE open1
           d == dispatch_callback(external, app, accessors, OnOptionSelected, 0)
           fire == selected /\ has_on_option_selected
           st2 == IF fire THEN "Consumed" ELSE st1
           \* dismiss click detection
           away == /\ open2
                   /\ is_clicked(button_state, "Primary")
                   /\ ~Contains(OuterBounds, mouse_position)
           out_of_bounds == away /\ layout.children < 2
           open3 == IF away /\ ~out_of_bounds /\ ~Contains(OptionBounds, mouse_position)
                    THEN FALSE ELSE open2
       IN
         /\ internal' = p1.internal
         /\ external' = IF fire THEN d.external ELSE external
         /\ app' = IF fire THEN d.state ELSE app
         /\ memory' = [memory EXCEPT ![MenuKey].is_open = open3]
         /\ pass' = [status |-> st2, next |-> 3]
         /\ pc' = IF out_of_bounds THEN "panicked" ELSE pc
    /\ ret' = NoRet
    /\ UNCHANGED <<inputVars, arbiterVars, events, accessors, cbas, next_token, handles, layout>>

(***************************************************************************)
(* context.rs: Context::run                                                *)
(***************************************************************************)
\* painter.prepare and the layout of the whole tree
RunLayout ==
    /\ pc = "idle"
    /\ pc' = "layout"
    /\ LET l == menubar_layout(memory, next_token) IN
         /\ memory' = l.memory
         /\ next_token' = l.next_token
         /\ layout' = l.layout
    /\ ret' = NoRet
    /\ UNCHANGED <<inputVars, arbiterVars, events, accessors, cbas, external, internal, app,
                   handles, pass>>

\* layout.to_absolute(Vec2::ZERO)
RunToAbsolute ==
    /\ pc = "layout"
    /\ pc' = "to_absolute"
    /\ ret' = NoRet
    /\ UNCHANGED <<inputVars, arbiterVars, events, cbVars, treeVars>>

\* Variant of mem_take that copies the buffer and leaves it as it is.
mem_clone(buf) == [taken |-> buf, left |-> buf]

\* std::mem::take on a Vec
mem_take(buf) == [taken |-> buf, left |-> <<>>]

\* std::mem::take(&mut ev_buffer), then the root's on_event starts
RunOnEvent ==
    /\ pc = "to_absolute"
    /\ pc' = "on_event"
    /\ events' = mem_take(ev_buffer).taken
    /\ ev_buffer' = mem_take(ev_buffer).left
    /\ pass' = [status |-> "Ignored", next |-> 1]
    /\ ret' = NoRet
    /\ UNCHANGED <<mouse_position, button_state, arbiterVars, cbVars, memory, handles,
                   layout>>

\* the root's on_event has returned; draw of the whole tree
RunDraw ==
    /\ pc = "on_event"
    /\ pc' = "draw"
    /\ events' = <<>>
    /\ ret' = NoRet
    /\ UNCHANGED <<inputVars, arbiterVars, cbVars, treeVars>>

\* dispatched_callbacks.end_frame(state); a panic of a callback's
\* invocation aborts the run
RunFlush ==
    /\ pc = "draw"
    /\ LET r == end_frame(external, app, accessors) IN
         /\ external' = r.external
         /\ app' = r.state
         /\ internal' = internal_clear(internal)
         /\ next_token' = IF r.error # "none" THEN next_token ELSE 0
         /\ pc' = IF r.error # "none" THEN "panicked" ELSE "flush"
         /\ ret' = [op |-> "end_frame", calls |-> r.calls, error |-> r.error]
    /\ UNCHANGED <<inputVars, arbiterVars, events, accessors, cbas, treeVars>>

\* input_state.end_frame(); run returns
RunEndFrame ==
    /\ pc = "flush"
    /\ pc' = "idle"
    /\ button_state' = button_end_frame(button_state)
    /\ ret' = NoRet
    /\ UNCHANGED <<mouse_position, ev_buffer, arbiterVars, events, cbVars, treeVars>>

Run == RunLayout \/ RunToAbsolute \/ RunOnEvent \/ RunDraw \/ RunFlush \/ RunEndFrame

(***************************************************************************)
(* Initial state: Context::new                                             *)
(***************************************************************************)
\* History kept for the properties: the drag grant still in force, and per
\* button the press-release cycle as the window system delivered it.
NoGrant == [w |-> None, button |-> None]

NoCycle ==
    [press_at |-> Nothing, far |-> FALSE, ended |-> "none", clicked |-> FALSE,
     released |-> FALSE, started |-> 0]

NoCall == [rect |-> [min |-> <<0, 0>>, max |-> <<0, 0>>],
           t |-> [translation |-> <<0, 0>>, scale |-> 1],
           held |-> None]

\* History of the polling callbacks: the token numbers handed out so far;
\* per token number the payload dispatched under it and not polled since,
\* counted from its last creation and counted from the start of the frame;
\* the tokens whose payload an earlier frame left unpolled; and what a poll
\* found in the first three when it was made.
NoPolls ==
    [known |-> {},
     since_created |-> [t \in 0..(MaxTokens - 1) |-> Nothing],
     in_frame |-> [t \in 0..(MaxTokens - 1) |-> Nothing],
     leftover |-> {},
     expect_created |-> Nothing,
     expect_frame |-> Nothing,
     was_leftover |-> FALSE]

\* no call on the memory made yet
NoMem == [last_write |-> <<>>, age |-> 0]

InitHist ==
    [grant |-> NoGrant,
     click |-> [b \in Buttons |-> NoCycle],
     focus_log |-> <<>>,
     dispatched |-> <<>>,
     invoked |-> <<>>,
     phases |-> <<>>,
     app0 |-> DefaultState,
     pushed |-> <<>>,
     delivered |-> <<>>,
     gap |-> <<>>,
     call |-> NoCall,
     poll |-> NoPolls,
     mem |-> NoMem,
     drilled |-> <<>>]

\* Context::new, with the accessor registry acc the application set up
InitWith(acc) ==
    /\ mouse_position = <<0, 0>>
    /\ button_state = <<>>
    /\ ev_buffer = <<>>
    /\ focus = None
    /\ drag = None
    /\ pc = "idle"
    /\ events = <<>>
    /\ accessors = acc
    /\ cbas = <<>>
    /\ external = <<>>
    /\ internal = <<>>
    /\ next_token = 0
    /\ app = DefaultState
    /\ memory = <<>>
    /\ handles = EmptyBag
    /\ layout = NoLayout
    /\ pass = [status |-> "Ignored", next |-> 0]
    /\ ret = NoRet

InitContext == InitWith(<<>>)

Init == InitContext /\ hist = InitHist

(***************************************************************************)
(* Spec: the input state machine and the drag arbiter, two buttons, two    *)
(* widgets claiming drags from their on_event.                             *)
(***************************************************************************)
\* The grant ends when the button it was obtained for is released.
GrantAfterEvent(ev) ==
    IF ev.type = "MouseReleased" /\ hist.grant.button = ev.button
    THEN NoGrant ELSE hist.grant

\* The first successful claim of a drag is the grant.
GrantAfterClaim(w, b) ==
    IF hist.grant = NoGrant /\ drag = None /\ drag' # None
    THEN [w |-> w, button |-> b] ELSE hist.grant

WinitMouse ==
    \E ev \in MouseEvents :
        /\ Len(ev_buffer) < MaxBuf
        /\ on_winit_event(ev)
        /\ hist' = [hist EXCEPT !.grant = GrantAfterEvent(ev)]

Frame == Run /\ UNCHANGED hist

WidgetClaim ==
    \E w \in Widgets, rect \in Rects, b \in Buttons, t \in Transforms :
        /\ ClaimDrag(w, rect, b, t)
        /\ hist' = [hist EXCEPT !.grant = GrantAfterClaim(w, b)]

Next == WinitMouse \/ Frame \/ WidgetClaim

Spec == Init /\ [][Next]_vars

\* C1: during one drag, once the first caller has been granted the claim,
\* every claim_drag_event call by a different widget returns false until the
\* button of that drag is released.
C1_SecondCallerRefused ==
    (/\ ret.op = "claim_drag_event"
     /\ hist.grant # NoGrant
     /\ ret.by # hist.grant.w) => ret.result = FALSE

\* C2: from the grant of the claim to widget W for button B until B is
\* released, the recorded drag holder stays W, whatever other input arrives.
C2_HolderKeptUntilRelease ==
    hist.grant # NoGrant => drag = hist.grant.w

\* C12: once widget W holds the drag claim obtained for button B, every
\* claim_drag_event call W makes for B returns true until B is released,
\* whatever rectangle is passed and wherever the cursor is.
C12_HolderCallsTrueUntilRelease ==
    (/\ ret.op = "claim_drag_event"
     /\ hist.grant # NoGrant
     /\ ret.by = hist.grant.w
     /\ ret.button = hist.grant.button) => ret.result = TRUE

(***************************************************************************)
(* SpecClaim: one button, two widgets claiming its drags. The history      *)
(* records the rectangle and the cursor transform of the last call and the *)
(* holder the call found.                                                  *)
(***************************************************************************)
ClaimPos == {<<0, 0>>, <<0, StepY>>, <<StepX, StepY>>}

ClaimEvents ==
    {MousePressed("Primary"), MouseReleased("Primary")} \cup {MouseMoved(p) : p \in ClaimPos}

\* hit rectangles: one around each of two positions, one around all of them
ClaimRects ==
    {[min |-> <<0, 0>>, max |-> <<0, 0>>],
     [min |-> <<0, StepY>>, max |-> <<0, StepY>>],
     [min |-> <<0, 0>>, max |-> <<StepX, StepY>>]}

ClaimWinit ==
    \E ev \in ClaimEvents :
        /\ Len(ev_buffer) < MaxClaimBuf
        /\ on_winit_event(ev)
        /\ UNCHANGED hist

ClaimCall ==
    \E w \in Widgets, rect \in ClaimRects, t \in Transforms :
        /\ ClaimDrag(w, rect, "Primary", t)
        /\ hist' = [hist EXCEPT !.call = [rect |-> rect, t |-> t, held |-> drag]]

NextClaim == ClaimWinit \/ Frame \/ ClaimCall

SpecClaim == Init /\ [][NextClaim]_vars

\* the state of button b is one of the two dragging states
Dragging(b) ==
    /\ b \in DOMAIN button_state
    /\ button_state[b].drag_state.kind \in {"DragJustStarted", "Dragged"}

\* a point moved by a cursor transform
Moved(t, p) == <<p[1] * t.scale + t.translation[1], p[2] * t.scale + t.translation[2]>>

Inside(rect, p) ==
    /\ rect.min[1] <= p[1] /\ p[1] <= rect.max[1]
    /\ rect.min[2] <= p[2] /\ p[2] <= rect.max[2]

\* C11 as stated: with no holder, the call returns true and records the
\* caller exactly when the button is dragging and the current cursor
\* position, after the cursor transform, lies inside rect.
C11_GrantedIffCursorInRect ==
    (ret.op = "claim_drag_event" /\ hist.call.held = None) =>
        LET granted == /\ Dragging(ret.button)
                       /\ Inside(hist.call.rect, Moved(hist.call.t, mouse_position))
        IN /\ ret.result = granted
           /\ drag = IF granted THEN ret.by ELSE None

\* C11 amended: with no holder, the call returns true and records the caller
\* exactly when the button is dragging and the position the drag started
\* from (where the button was pressed), after the cursor transform, lies
\* inside rect; in every other case it returns false and the holder stays
\* empty.
C11_GrantedIffDragStartInRect ==
    (ret.op = "claim_drag_event" /\ hist.call.held = None) =>
        LET granted == /\ Dragging(ret.button)
                       /\ Inside(hist.call.rect,
                                 Moved(hist.call.t, button_state[ret.button].drag_state.pos))
        IN /\ ret.result = granted
           /\ drag = IF granted THEN ret.by ELSE None

\* a drag that started inside the rectangle under a transform that moves it,
\* claimed with the cursor outside
C11_Witness ==
    /\ ret.op = "claim_drag_event"
    /\ hist.call.held = None
    /\ ret.result = TRUE
    /\ drag = ret.by
    /\ hist.call.t.translation # <<0, 0>>
    /\ ~Inside(hist.call.rect, Moved(hist.call.t, mouse_position))


(***************************************************************************)
(* SpecClick: the click / drag state machine of one button, with up to     *)
(* MaxClickBuf events between two runs.                                    *)
(***************************************************************************)
\* The press-release cycle of every button as the events describe it: where
\* the matching press happened, whether a move went further than 4 px from
\* there, how the last release of the frame ended its cycle, whether some
\* release of the frame ended a cycle that stayed within 4 px, and whether a
\* release event of the button arrived during the frame.
CycleAfterEvent(ev) ==
    [b \in Buttons |->
        LET c == hist.click[b] IN
        CASE ev.type = "MousePressed" /\ ev.button = b ->
                [c EXCEPT !.press_at = Some(mouse_position), !.far = FALSE, !.started = 0]
          [] ev.type = "MouseMoved" /\ c.press_at # Nothing ->
                [c EXCEPT !.far = @ \/ DistanceGreater(c.press_at[1], ev.pos, 4)]
          [] ev.type = "MouseReleased" /\ ev.button = b /\ c.press_at # Nothing ->
                [press_at |-> Nothing, far |-> FALSE,
                 ended |-> IF c.far THEN "drag" ELSE "click",
                 clicked |-> c.clicked \/ ~c.far,
                 released |-> TRUE,
                 started |-> c.started]
          [] ev.type = "MouseReleased" /\ ev.button = b /\ c.press_at = Nothing ->
                [c EXCEPT !.ended = "none", !.released = TRUE]
          [] OTHER -> c]

CycleAfterFrame ==
    [b \in Buttons |-> [hist.click[b] EXCEPT !.ended = "none", !.clicked = FALSE, !.released = FALSE]]

ClickWinit ==
    \E ev \in ClickEvents :
        /\ Len(ev_buffer) < MaxClickBuf
        /\ on_winit_event(ev)
        /\ hist' = [hist EXCEPT !.click = CycleAfterEvent(ev)]

\* The frames of the cycle, counted up to two, that began with
\* dragging_just_started true: every query of the frame sees the same value.
CycleAtFrameStart ==
    [b \in Buttons |->
        [hist.click[b] EXCEPT !.started =
            IF dragging_just_started(button_state, b) /\ @ < 2 THEN @ + 1 ELSE @]]

ClickFrame ==
    /\ Run
    /\ hist' = CASE pc = "flush" -> [hist EXCEPT !.click = CycleAfterFrame]
                 [] pc = "idle" -> [hist EXCEPT !.click = CycleAtFrameStart]
                 [] OTHER -> hist

NextClick == ClickWinit \/ ClickFrame

SpecClick == Init /\ [][NextClick]_vars

\* C10 as stated: after a release that ends a press-release cycle, is_clicked
\* is true exactly when no move of that cycle went further than 4 px from the
\* press position.
C10_ReleaseIsClickIffNear ==
    \A b \in Buttons :
        hist.click[b].ended # "none" =>
            (is_clicked(button_state, b) <=> hist.click[b].ended = "click")

\* C10 amended: is_clicked is true exactly when some release of the button
\* during the current frame ended a cycle that stayed within 4 px of its
\* press position; a release that ends a drag never sets the flag.
C10_ClickedIffNearReleaseInFrame ==
    \A b \in Buttons : is_clicked(button_state, b) <=> hist.click[b].clicked

\* A drag whose cursor is back at the press position has been released and
\* is not reported as a click.
C10_Witness ==
    /\ hist.click["Primary"].ended = "drag"
    /\ ~is_clicked(button_state, "Primary")
    /\ mouse_position = <<0, 0>>

\* C28: is_released(button) is true exactly when a release event for that
\* button was received during the current frame, and false otherwise, also
\* for a button that was never pressed.
C28_ReleasedIffReleaseInFrame ==
    \A b \in Buttons : is_released(button_state, b) <=> hist.click[b].released

\* C36: within one press-release cycle of a button, dragging_just_started is
\* true in at most one frame, and whenever it is true is_dragging is Some;
\* end_frame turns DragJustStarted into Dragged, and the state returns to
\* Idle only on the release of the button.
C36_DragStartsOncePerCycle ==
    /\ [](\A b \in Buttons :
              /\ hist.click[b].started <= 1
              /\ dragging_just_started(button_state, b) =>
                     is_dragging(button_state, b) # Nothing)
    /\ [][\A b \in DOMAIN button_state :
              /\ (pc = "flush" /\ dragging_just_started(button_state, b)) =>
                     button_state'[b].drag_state = Dragged(button_state[b].drag_state.pos)
              /\ (button_state[b].drag_state # Idle /\ button_state'[b].drag_state = Idle) =>
                     /\ ev_buffer' # <<>>
                     /\ ev_buffer'[Len(ev_buffer')] = MouseReleased(b)]_vars

\* A drag whose first frame has passed: the frame was counted once and
\* end_frame has turned the state into Dragged.
C36_Witness ==
    /\ pc = "idle"
    /\ hist.click["Primary"].started = 1
    /\ "Primary" \in DOMAIN button_state
    /\ button_state["Primary"].drag_state.kind = "Dragged"

\* C37: for every button, down is true exactly when the button's drag state
\* is not Idle.
C37_DownIffNotIdle ==
    \A b \in DOMAIN button_state :
        button_state[b].down <=> button_state[b].drag_state # Idle

\* A button held down in a drag that lasts into a later frame, with events
\* of that frame already buffered.
C37_Witness ==
    /\ "Primary" \in DOMAIN button_state
    /\ button_state["Primary"].down
    /\ button_state["Primary"].drag_state.kind = "Dragged"
    /\ hist.click["Primary"].ended = "none"
    /\ ev_buffer # <<>>

(***************************************************************************)
(* SpecHold: two buttons and two widgets claiming their drags over the     *)
(* whole window, with up to MaxClaimBuf events between two runs.           *)
(***************************************************************************)
HoldEvents ==
    {MousePressed(b) : b \in Buttons} \cup {MouseReleased(b) : b \in Buttons}
        \cup {MouseMoved(p) : p \in {<<0, 0>>, <<StepX, StepY>>}}

HoldWinit ==
    \E ev \in HoldEvents :
        /\ Len(ev_buffer) < MaxClaimBuf
        /\ on_winit_event(ev)
        /\ UNCHANGED hist

HoldCall ==
    \E w \in Widgets, b \in Buttons :
        /\ ClaimDrag(w, [min |-> <<0, 0>>, max |-> <<StepX, StepY>>], b,
                     [translation |-> <<0, 0>>, scale |-> 1])
        /\ UNCHANGED hist

NextHold == HoldWinit \/ Frame \/ HoldCall

SpecHold == Init /\ [][NextHold]_vars

\* C38: whenever a drag holder is recorded, at least one mouse button is
\* down: the holder is only set while a button is dragging, and a release
\* event clears it as it arrives.
C38_HolderOnlyWhileButtonDown ==
    /\ [](drag # None => \E b \in Buttons : is_down(button_state, b))
    /\ [][((drag' # None /\ drag' # drag) =>
               (\E b \in DOMAIN button_state :
                   button_state[b].drag_state.kind \in {"DragJustStarted", "Dragged"}))
           /\
           ((ev_buffer' # ev_buffer /\ ev_buffer' # <<>>
               /\ ev_buffer'[Len(ev_buffer')].type = "MouseReleased") =>
               drag' = None)]_vars

\* After Secondary has been pressed and released, a widget has claimed the
\* drag of Primary: the holder is recorded with one button down.
C38_Witness ==
    /\ drag = "w1"
    /\ ret.op = "claim_drag_event"
    /\ ret.result = TRUE
    /\ is_down(button_state, "Primary")
    /\ ~is_down(button_state, "Secondary")
    /\ "Secondary" \in DOMAIN button_state

(***************************************************************************)
(* SpecFocus: widgets requesting and releasing the focus.                  *)
(***************************************************************************)
FocusRequest ==
    \E w \in Widgets :
        /\ Len(hist.focus_log) < MaxCalls
        /\ RequestFocus(w)
        /\ hist' = [hist EXCEPT !.focus_log = Append(@, [op |-> "request", id |-> w])]

FocusRelease ==
    \E w \in Widgets :
        /\ Len(hist.focus_log) < MaxCalls
        /\ ReleaseFocus(w)
        /\ hist' = [hist EXCEPT !.focus_log = Append(@, [op |-> "release", id |-> w])]

NextFocus == FocusRequest \/ FocusRelease \/ Frame

SpecFocus == Init /\ [][NextFocus]_vars

\* Index of the most recent request_focus of a log of calls, 0 if none.
LastRequest(log) ==
    IF \E i \in 1..Len(log) : log[i].op = "request"
    THEN CHOOSE i \in 1..Len(log) :
            /\ log[i].op = "request"
            /\ \A j \in (i + 1)..Len(log) : log[j].op # "request"
    ELSE 0

\* The focus the calls of a log leave behind, by the rule of the claim.
FocusAfter(log) ==
    LET i == LastRequest(log) IN
    IF i = 0 THEN None
    ELSE IF \E j \in (i + 1)..Len(log) : log[j] = [op |-> "release", id |-> log[i].id]
         THEN None
         ELSE log[i].id

\* C9: the focused widget is the id of the most recent request_focus, unless
\* a later release_focus named that id, in which case nothing is focused; a
\* release_focus naming another id changes nothing.
C9_FocusIsLastRequest == focus = FocusAfter(hist.focus_log)

\* A release naming another widget came after the last request and the
\* requester is still focused.
C9_Witness ==
    LET log == hist.focus_log IN
    /\ Len(log) >= 2
    /\ log[Len(log) - 1].op = "request"
    /\ log[Len(log)].op = "release"
    /\ log[Len(log)].id # log[Len(log) - 1].id
    /\ focus = log[Len(log) - 1].id

(***************************************************************************)
(* SpecCallbacks: frames in which widgets dispatch external callbacks,     *)
(* over the registry of tests::test_accessor_regitry in every iteration    *)
(* order. The history records the callbacks dispatched in the frame, the   *)
(* calls end_frame made, the phases the run went through and the           *)
(* application state the frame started with.                               *)
(***************************************************************************)
InitCallbacks ==
    /\ \E acc \in Orders(TestRegistry) : InitWith(acc)
    /\ hist = InitHist

CbDispatch ==
    \E c \in CallbackFns, p \in Payloads :
        /\ Len(hist.dispatched) < MaxQueue
        /\ DispatchExternal(c, p)
        /\ hist' = [hist EXCEPT !.dispatched =
               Append(@, [input_type |-> c.input_type, body |-> c.body, payload |-> p])]

CbFrame ==
    /\ Run
    /\ hist' = IF pc = "idle"
               THEN [hist EXCEPT !.dispatched = <<>>, !.invoked = <<>>,
                                 !.phases = <<pc'>>, !.app0 = app]
               ELSE [hist EXCEPT !.phases = Append(@, pc'),
                                 !.invoked = IF ret'.op = "end_frame"
                                             THEN ret'.calls ELSE @]

NextCallbacks == CbDispatch \/ CbFrame

SpecCallbacks == InitCallbacks /\ [][NextCallbacks]_vars

\* The callbacks of a log that run before the first one whose state type no
\* projection chain of the test registry leads to.
RECURSIVE Runnable(_)
Runnable(log) ==
    IF log = <<>> \/ Head(log).input_type \notin Types THEN <<>>
    ELSE <<Head(log)>> \o Runnable(Tail(log))

\* C3: every external callback dispatched in a frame is invoked exactly once
\* with its payload by the end_frame of that frame and not before it, in
\* dispatch order, and the external queue is empty afterwards. (When a
\* callback of the frame makes the flush fail, this holds of the callbacks
\* queued before it.)
C3_DispatchedInvokedOnceInOrder ==
    /\ pc \in {"layout", "to_absolute", "on_event", "draw"} =>
           hist.invoked = <<>> /\ external = hist.dispatched
    /\ pc \in {"flush", "idle"} =>
           hist.invoked = hist.dispatched /\ external = <<>>
    /\ pc = "panicked" =>
           /\ hist.invoked = Runnable(hist.dispatched)
           /\ hist.invoked # hist.dispatched
           /\ external = <<>>

C3_Witness ==
    /\ pc = "flush"
    /\ Len(hist.invoked) = 2
    /\ hist.invoked[1] # hist.invoked[2]
    /\ hist.invoked = hist.dispatched

(***************************************************************************)
(* SpecFlush: the frames of SpecCallbacks over every registry made of the  *)
(* three projections of the test and of a direct projection from State to  *)
(* the Baz inside its Foo, in every iteration order.                       *)
(***************************************************************************)
FlushEdges ==
    TestRegistry \cup {[src |-> "State", dst |-> "Baz", field |-> <<"foo", "baz">>]}

FlushRegistries == UNION {Orders(registry) : registry \in SUBSET FlushEdges}

InitFlush ==
    /\ \E acc \in FlushRegistries : InitWith(acc)
    /\ hist = InitHist

SpecFlush == InitFlush /\ [][NextCallbacks]_vars

\* The sub-state each state type stands for in State, written field by field.
WriteAt(s, cd) ==
    CASE cd.input_type = "Baz" -> [s EXCEPT !.foo.baz.y = cd.payload]
      [] cd.input_type = "Bar" -> [s EXCEPT !.bar.x = cd.payload]
      [] cd.input_type = "Foo" -> [s EXCEPT !.foo.baz.y = cd.payload]
      [] cd.input_type = "State" -> [s EXCEPT !.bar.x = cd.payload]
      [] OTHER -> s

RECURSIVE WriteAll(_, _)
WriteAll(s, log) == IF log = <<>> THEN s ELSE WriteAll(WriteAt(s, Head(log)), Tail(log))

\* C4: with State->Foo, Foo->Baz and State->Bar registered, a flushed callback
\* typed for Baz is applied to state.foo.baz and one typed for Bar to
\* state.bar, every other part of the state staying as it was: the state
\* after the flush is the state the frame started with, with each queued
\* callback's write made at the sub-state of its type, and a flush of
\* callbacks whose types are all registered does not fail.
C4_CallbackAppliedToProjectedSubState ==
    /\ pc \in {"flush", "panicked"} =>
           app = WriteAll(hist.app0, Runnable(hist.dispatched))
    /\ pc = "panicked" => \E i \in 1..Len(hist.dispatched) :
                              hist.dispatched[i].input_type \notin Types

C4_Witness ==
    /\ pc = "flush"
    /\ Len(hist.dispatched) = 1
    /\ hist.dispatched[1].input_type = "Baz"
    /\ hist.app0.foo.baz.y # hist.dispatched[1].payload
    /\ app.foo.baz.y = hist.dispatched[1].payload
    /\ app.bar = hist.app0.bar

FramePhases == <<"layout", "to_absolute", "on_event", "draw", "flush", "idle">>

IsPrefix(p, q) == Len(p) <= Len(q) /\ \A i \in 1..Len(p) : p[i] = q[i]

\* C7: a run goes through layout, absolute-position pass, on_event, draw,
\* flush of the external callbacks and input aging in this order, each once,
\* and the application state changes in no step other than the flush that
\* follows draw.
C7_PhasesInOrder ==
    /\ [](\/ IsPrefix(hist.phases, FramePhases)
          \/ hist.phases = SubSeq(FramePhases, 1, 4) \o <<"panicked">>)
    /\ [][app' # app => pc = "draw" /\ pc' \in {"flush", "panicked"}]_vars

C7_Witness ==
    /\ hist.phases = FramePhases
    /\ app # hist.app0
    /\ hist.dispatched # <<>>

(***************************************************************************)
(* SpecPath: path searches from the root type over every registry of at    *)
(* most MaxEdges projections, in every iteration order.                    *)
(***************************************************************************)
InitPath ==
    /\ \E acc \in Registries : InitWith(acc)
    /\ hist = InitHist

PathSearch == \E to_typ \in Types : FindPath(to_typ) /\ UNCHANGED hist

NextPath == PathSearch

SpecPath == InitPath /\ [][NextPath]_vars

EdgeSet(acc) == {<<acc[i].src, acc[i].dst>> : i \in 1..Len(acc)}

RECURSIVE ReachableIn(_, _, _)
\* the types reached from the set S of types along at most k projections
ReachableIn(E, S, k) ==
    IF k = 0 THEN S
    ELSE ReachableIn(E, S \cup {e[2] : e \in {d \in E : d[1] \in S}}, k - 1)

\* the types reached from a along one projection or more
Descendants(E, a) ==
    ReachableIn(E, {e[2] : e \in {d \in E : d[1] = a}}, Cardinality(Types))

IsDAG(E) == \A a \in Types : a \notin Descendants(E, a)

ValidPath(E, path, from_typ, to_typ) ==
    /\ path # <<>>
    /\ path[1] = from_typ
    /\ path[Len(path)] = to_typ
    /\ \A k \in 1..(Len(path) - 1) : <<path[k], path[k + 1]>> \in E

\* C5: for every acyclic set of registered projections in which the
\* requested type is reachable from the root type, find_path returns a list
\* from the root type to the requested type whose consecutive pairs are
\* registered projections, in whatever order the entries are iterated.
C5_PathFoundInEveryDAG ==
    (/\ ret.op = "find_path"
     /\ IsDAG(EdgeSet(accessors))
     /\ ret.to \in {RootType} \cup Descendants(EdgeSet(accessors), RootType))
    => /\ ret.result.kind = "path"
       /\ ValidPath(EdgeSet(accessors), ret.result.path, RootType, ret.to)

\* C15: if the registered projections contain a cycle that is reachable from
\* the root type, a path search from the root fails with an error instead of
\* returning a path, whatever type is requested and in whatever order the
\* entries are iterated.
C15_ReachableCycleRejected ==
    (/\ ret.op = "find_path"
     /\ \E a \in {RootType} \cup Descendants(EdgeSet(accessors), RootType) :
            a \in Descendants(EdgeSet(accessors), a))
    => ret.result.kind # "path"

(***************************************************************************)
(* SpecEvents: window events between runs, and runs. The history records   *)
(* every event pushed to the buffer, the events pushed since the last      *)
(* hand-over, and the batches handed to the root's on_event one after the  *)
(* other.                                                                  *)
(***************************************************************************)
WindowEvents ==
    {MousePressed("Primary"), MouseReleased("Primary"), MouseMoved(<<StepX, 0>>)}
        \cup KeyEvents

EvWinit ==
    \E ev \in WindowEvents :
        /\ Len(hist.pushed) < MaxEvents
        /\ on_winit_event(ev)
        /\ LET new == SubSeq(ev_buffer', Len(ev_buffer) + 1, Len(ev_buffer')) IN
             hist' = [hist EXCEPT !.pushed = @ \o new, !.gap = @ \o new]

EvFrame ==
    /\ Run
    /\ hist' = IF pc' = "on_event"
               THEN [hist EXCEPT !.delivered = @ \o events', !.gap = <<>>]
               ELSE hist

NextEvents == EvWinit \/ EvFrame

SpecEvents == Init /\ [][NextEvents]_vars

\* C8: the events pushed to the buffer between two runs are handed to the
\* root's on_event by the next run, in one batch in arrival order, and the
\* buffer is empty after the hand-over: the batches handed over so far
\* followed by the buffer are the events pushed so far, and the buffer holds
\* exactly the events pushed since the last hand-over.
C8_EachEventDeliveredOnce ==
    /\ hist.delivered \o ev_buffer = hist.pushed
    /\ ev_buffer = hist.gap
    /\ pc \in {"on_event", "draw", "flush"} => ev_buffer = <<>>
    /\ pc = "on_event" =>
           events = SubSeq(hist.pushed, Len(hist.pushed) - Len(events) + 1, Len(hist.pushed))

C8_Witness ==
    /\ pc = "on_event"
    /\ Len(events) = 2
    /\ events[1] # events[2]
    /\ Len(hist.delivered) = 3
    /\ hist.delivered = hist.pushed

(***************************************************************************)
(* SpecTree: window events between runs, and runs whose on_event pass      *)
(* visits the Button and then the MenubarButton.                           *)
(***************************************************************************)
TreeEvents ==
    {MousePressed("Primary"), MouseReleased("Primary")}
        \cup {MouseMoved(p) : p \in {<<0, 0>>, <<StepX, 0>>, <<StepX, StepY>>}}

TreeWinit ==
    \E ev \in TreeEvents :
        /\ Len(ev_buffer) < MaxTreeBuf
        /\ on_winit_event(ev)
        /\ UNCHANGED hist

TreeVisitButton == VisitButton /\ UNCHANGED hist

TreeVisitMenubar == \E cb \in BOOLEAN : VisitMenubar(cb) /\ UNCHANGED hist

\* draw starts when the root's on_event has visited both children
TreeFrame ==
    /\ pc = "on_event" => pass.next = 3
    /\ Run
    /\ UNCHANGED hist

NextTree == TreeWinit \/ TreeVisitButton \/ TreeVisitMenubar \/ TreeFrame

SpecTree == Init /\ [][NextTree]_vars

Created == next_token..(next_token' - 1)

PollCreate ==
    /\ next_token < MaxTokens
    /\ CreateInternal
    /\ hist' = [hist EXCEPT
           !.poll.known = @ \cup Created,
           !.poll.since_created = [t \in DOMAIN @ |-> IF t \in Created THEN Nothing ELSE @[t]]]

PollDispatch ==
    \E tk \in hist.poll.known, p \in Payloads :
        /\ DispatchInternal(tk, p)
        /\ hist' = [hist EXCEPT !.poll.since_created[tk] = Some(p),
                                !.poll.in_frame[tk] = Some(p)]

PollPoll ==
    \E tk \in hist.poll.known :
        /\ Poll(tk)
        /\ hist' = [hist EXCEPT !.poll.since_created[tk] = Nothing,
                                !.poll.in_frame[tk] = Nothing,
                                !.poll.expect_created = hist.poll.since_created[tk],
                                !.poll.expect_frame = hist.poll.in_frame[tk],
                                !.poll.was_leftover = tk \in hist.poll.leftover]

PollFrame ==
    /\ Run
    /\ hist' = IF pc = "idle"
               THEN [hist EXCEPT
                       !.poll.known = @ \cup Created,
                       !.poll.since_created =
                           [t \in DOMAIN @ |-> IF t \in Created THEN Nothing ELSE @[t]],
                       !.poll.in_frame = [t \in DOMAIN @ |-> Nothing],
                       !.poll.leftover =
                           {t \in DOMAIN hist.poll.in_frame : hist.poll.in_frame[t] # Nothing}]
               ELSE hist

NextPoll == PollCreate \/ PollDispatch \/ PollPoll \/ PollFrame

SpecPoll == Init /\ [][NextPoll]_vars

\* C13 as stated: a poll returns the payload dispatched under the token since
\* the token was created and not polled since, and None if there is none.
C13_PollReturnsPendingSinceCreated ==
    ret.op = "poll_callback_result" => ret.result = hist.poll.expect_created

\* C13 amended: a poll returns the payload last dispatched under the token's
\* number since the start of the current frame and not polled since, and
\* None if there is none; the first poll after a dispatch takes the payload
\* and the following polls return None until the next dispatch.
C13_PollReturnsPendingInFrame ==
    ret.op = "poll_callback_result" => ret.result = hist.poll.expect_frame

\* the first poll after a dispatch: it returns the payload and takes it out
\* of the storage, where another token's payload stays
C13_Witness ==
    /\ ret.op = "poll_callback_result"
    /\ ret.result = Some(MaxPayload)
    /\ hist.poll.expect_frame = Some(MaxPayload)
    /\ ret.tk \notin DOMAIN internal
    /\ \E t \in DOMAIN internal : t # ret.tk

\* C14: after end_frame the internal payload storage is empty and the token
\* counter is 0, and a poll of a token whose payload an earlier frame left
\* unpolled returns nothing but a payload dispatched in the current frame.
C14_NothingSurvivesEndFrame ==
    /\ pc \in {"flush", "idle"} => internal = <<>> /\ next_token = 0
    /\ (ret.op = "poll_callback_result" /\ hist.poll.was_leftover) =>
           ret.result = hist.poll.expect_frame

C14_Witness ==
    /\ ret.op = "poll_callback_result"
    /\ hist.poll.was_leftover
    /\ hist.poll.expect_frame = Nothing
    /\ ret.result = Nothing

(***************************************************************************)
(* Callbacks no projection chain leads to, over SpecFlush.                 *)
(***************************************************************************)
Unreachable(typ) ==
    typ # RootType /\ typ \notin Descendants(EdgeSet(accessors), RootType)

\* C16: when a queued callback's state type differs from the root state type
\* and no chain of registered projections leads to it, flushing that callback
\* fails with the "no registered accessor" error: the callback body is not
\* run and the application state is left as the callbacks before it made it.
C16_UnreachableCallbackFailsNoAccessor ==
    \A i \in 1..Len(hist.dispatched) :
        (/\ pc \in {"flush", "panicked"}
         /\ Unreachable(hist.dispatched[i].input_type)
         /\ Len(hist.invoked) = i - 1)
        => /\ pc = "panicked"
           /\ ret.error = "panic_no_accessor"
           /\ app = WriteAll(hist.app0, hist.invoked)

(***************************************************************************)
(* SpecMemory: calls on the memory store by a widget that keeps values of  *)
(* two types and a widget that keeps one, the values being 0..MaxValue and *)
(* at most MaxHandles of the handles the calls return being live at once,  *)
(* kept, written through and dropped in any order. The history records for *)
(* each key its last write: the value, and whether a set, an assignment    *)
(* through a handle or the default of a call on the missing key wrote it.  *)
(***************************************************************************)
MemTypes == {"T", "U"}
Stores == {<<"w1", "T">>, <<"w1", "U">>, <<"w2", "T">>}
Values == 0..MaxValue

\* The last write of each key after the step. A write is a set that
\* returned, an assignment through a handle, and the default that ensure,
\* get_or or get_mut_or were given for a missing key when they returned.
LastWrite ==
    LET old == hist.mem.last_write
        k == ret'.key
        by == CASE ret'.op = "set" -> "set"
                [] ret'.op = "write" -> "handle"
                [] ret'.op \in {"ensure", "get_or", "get_mut_or"}
                       /\ k \notin DOMAIN memory -> "default"
                [] OTHER -> "none" IN
    IF ret'.error = "none" /\ by # "none"
    THEN [j \in DOMAIN old \cup {k} |->
             IF j = k THEN [by |-> by, value |-> ret'.arg[1]] ELSE old[j]]
    ELSE old

Recorded == hist' = [hist EXCEPT !.mem = [last_write |-> LastWrite, age |-> 0]]

MemWriteIn(stores) ==
    \E s \in stores, t \in Values :
        (MemSet(s[1], s[2], t) \/ MemEnsure(s[1], s[2], t)) /\ Recorded

\* calls that return a handle, at most cap handles being live after them
MemReadUpTo(stores, cap) ==
    \E s \in stores :
        /\ (MemGet(s[1], s[2]) \/ MemGetMut(s[1], s[2]))
        /\ BagCardinality(handles') <= cap
        /\ Recorded

MemReadOrUpTo(stores, cap) ==
    \E s \in stores, t \in Values :
        /\ (MemGetOr(s[1], s[2], t) \/ MemGetMutOr(s[1], s[2], t))
        /\ BagCardinality(handles') <= cap
        /\ Recorded

MemReadIn(stores) == MemReadUpTo(stores, MaxHandles)

MemReadOrIn(stores) == MemReadOrUpTo(stores, MaxHandles)

MemWrite == MemWriteIn(Stores)

MemRead == MemReadIn(Stores)

MemReadOr == MemReadOrIn(Stores)

MemHandle ==
    \E h \in BagToSet(handles) :
        ((\E t \in Values : WriteHandle(h, t)) \/ DropHandle(h)) /\ Recorded

NextMemory == MemWrite \/ MemRead \/ MemReadOr \/ MemHandle

SpecMemory == Init /\ [][NextMemory]_vars

\* the last step was one of the calls ops and it returned
Returned(ops) == ret.op \in ops /\ ret.error = "none"

Stored(mem, key) == IF key \in DOMAIN mem THEN Some(mem[key]) ELSE Nothing

\* the value last written under a key
Written(key) ==
    IF key \in DOMAIN hist.mem.last_write
    THEN Some(hist.mem.last_write[key].value) ELSE Nothing

WrittenBy(key, by) ==
    key \in DOMAIN hist.mem.last_write /\ hist.mem.last_write[key].by = by

\* C17: if nothing is stored under (id, T), get_or(id, d1) stores and returns
\* d1, and a following get_or(id, d2) with another default returns d1 again;
\* get_or, get_mut_or and ensure never overwrite a value that is present.
\* Every entry holds the value last written under its key, a default given
\* for a key that is present not being a write, and a get_or or get_mut_or
\* that returns hands out that value.
C17_FirstDefaultKept ==
    /\ \A key \in DOMAIN memory : Stored(memory, key) = Written(key)
    /\ Returned({"get_or", "get_mut_or"}) => ret.result = Written(ret.key)

C17_Witness ==
    /\ Returned({"get_or"})
    /\ WrittenBy(ret.key, "default")
    /\ ret.arg # ret.result

\* C18: after set(id, x), get(id) returns x until the next write to the same
\* key, whatever other keys are read or written in between: a get that
\* returns, of a key whose last write is a set, hands out the value of that
\* set; and the get returns unless a mutable handle is live.
C18_GetReturnsLastSet ==
    (ret.op = "get" /\ WrittenBy(ret.key, "set"))
    => /\ ret.error = "none" => ret.result = Written(ret.key)
       /\ ret.error # "none" => \E h \in BagToSet(handles) : h.mutable

C18_Witness ==
    /\ Returned({"get"})
    /\ WrittenBy(ret.key, "set")
    /\ ret.result = Some(MaxValue)
    /\ \E key \in DOMAIN memory \ {ret.key} :
           WrittenBy(key, "handle") /\ memory[key] # MaxValue

\* C19: values of two types stored under the same widget id do not
\* interfere: no call on (id, T) and no assignment through a handle to it
\* creates, changes or removes the entry under (id, U) for another type U.
C19_OtherTypeUntouched ==
    [][\A typ \in MemTypes \ {ret'.key[2]} :
           Stored(memory', Key(ret'.key[1], typ)) = Stored(memory, Key(ret'.key[1], typ))]_vars

C19_Witness ==
    /\ Returned({"set"})
    /\ \E typ \in MemTypes \ {ret.key[2]} :
           /\ Key(ret.key[1], typ) \in DOMAIN memory
           /\ ret.key \in DOMAIN memory
           /\ memory[Key(ret.key[1], typ)] # memory[ret.key]

\* C20: get and get_mut on a key under which nothing has ever been stored
\* fail fatally instead of returning a handle, and leave the contents of the
\* store as they were.
C20_GetOfMissingKeyFails ==
    [][(ret'.op \in {"get", "get_mut"} /\ ret'.key \notin DOMAIN memory)
       => /\ ret'.error # "none"
          /\ pc' = "panicked"
          /\ ret'.result = Nothing
          /\ handles' = handles
          /\ memory' = memory]_vars

C20_Witness ==
    /\ ret.op \in {"get", "get_mut"}
    /\ ret.error \in {"no_value_for_given_id", "unwrap_on_none"}
    /\ pc = "panicked"
    /\ ret.key \notin DOMAIN memory
    /\ memory # <<>>

(***************************************************************************)
(* SpecKeep: runs of Context::run, the calls on the memory store of a      *)
(* widget that keeps values of two types being made at any point of a      *)
(* frame or between frames, and not at all in other frames. The history    *)
(* counts the frames started since the last call on the memory.            *)
(***************************************************************************)
MaxAge == 2

KeepStores == {<<"w1", "T">>, <<"w1", "U">>}

KeepWrite == MemWriteIn(KeepStores)

KeepRead == MemReadIn(KeepStores)

KeepReadOr == MemReadOrIn(KeepStores)

KeepFrame ==
    /\ Run
    /\ hist' = IF pc = "idle" /\ hist.mem.age < MaxAge
               THEN [hist EXCEPT !.mem.age = @ + 1] ELSE hist

NextKeep == KeepWrite \/ KeepRead \/ KeepReadOr \/ MemHandle \/ KeepFrame

SpecKeep == Init /\ [][NextKeep]_vars

\* C21: no operation ever removes an entry from the memory store: a key that
\* is present stays present in every step, of a call on the memory and of a
\* frame alike, and its value changes only in a step that writes to that key
\* (a set, or an assignment through a handle to it).
C21_EntriesNeverRemoved ==
    [][\A key \in DOMAIN memory :
           /\ key \in DOMAIN memory'
           /\ memory'[key] # memory[key] =>
                  ret'.op \in {"set", "write"} /\ ret'.key = key]_vars

C21_Witness ==
    /\ hist.mem.age = MaxAge
    /\ pc = "idle"
    /\ KeepStores \subseteq DOMAIN memory
    /\ WrittenBy(Key("w1", "T"), "set")
    /\ memory[Key("w1", "T")] = MaxValue
    /\ memory[Key("w1", "U")] # MaxValue

(***************************************************************************)
(* SpecBorrow: calls on the memory store for the same type under two       *)
(* widget ids, up to MaxLive of the handles they return being live at      *)
(* once.                                                                   *)
(***************************************************************************)
MaxLive == 2

BorrowStores == {<<"w1", "T">>, <<"w2", "T">>}

BorrowWrite == MemWriteIn(BorrowStores)

BorrowRead == MemReadUpTo(BorrowStores, MaxLive)

BorrowReadOr == MemReadOrUpTo(BorrowStores, MaxLive)

NextBorrow == BorrowWrite \/ BorrowRead \/ BorrowReadOr \/ MemHandle

SpecBorrow == Init /\ [][NextBorrow]_vars

\* a mutable handle is the only live handle to its key
NoAliasedMut ==
    \A h \in BagToSet(handles) :
        h.mutable =>
            /\ CopiesIn(h, handles) = 1
            /\ ~BagIn(Handle(h.key, FALSE), handles)

\* C22: requesting a mutable handle to a memory key while another handle to
\* the same key is live is a fatal error, and two live mutable handles to
\* the same key never coexist: a get_mut or get_mut_or of a key that a live
\* handle points to panics and returns no handle, and in every reachable
\* state a mutable handle is the only live handle to its key.
C22_NoSecondMutableHandle ==
    /\ []NoAliasedMut
    /\ [][(/\ ret'.op \in {"get_mut", "get_mut_or"}
           /\ \E h \in BagToSet(handles) : h.key = ret'.key)
          => /\ ret'.error # "none"
             /\ pc' = "panicked"
             /\ ret'.result = Nothing
             /\ handles' = handles]_vars

C22_Witness ==
    /\ ret.op = "get_mut"
    /\ ret.error = "already_borrowed"
    /\ pc = "panicked"
    /\ BagIn(Handle(ret.key, TRUE), handles)

(***************************************************************************)
(* layout.rs and base_widgets: f32 quantities, Vec2, Rect and Layout.      *)
(* An f32 is NaN or an exact multiple of 1/Scale, Scale being chosen so    *)
(* that every quotient weight / total_filled_weight and every halving the  *)
(* layouts compute is such a multiple; rounding is not modelled.           *)
(***************************************************************************)
MaxChildren == 3
MaxWeight == 3

RECURSIVE Gcd(_, _)
Gcd(a, b) == IF b = 0 THEN a ELSE Gcd(b, a % b)

RECURSIVE LcmUpTo(_)
LcmUpTo(n) == IF n <= 1 THEN 1 ELSE (LcmUpTo(n - 1) * n) \div Gcd(LcmUpTo(n - 1), n)

Scale == 2 * LcmUpTo(MaxChildren * MaxWeight)

NaN == <<>>
Num(i) == <<i * Scale>>
Half == <<Scale \div 2>>

fadd(a, b) == IF a = NaN \/ b = NaN THEN NaN ELSE <<a[1] + b[1]>>
fneg(a) == IF a = NaN THEN NaN ELSE <<0 - a[1]>>
fsub(a, b) == fadd(a, fneg(b))
fmul(a, b) ==
    IF a = NaN \/ b = NaN THEN NaN
    ELSE <<(a[1] \div Scale) * b[1] + ((a[1] % Scale) * b[1]) \div Scale>>
\* u32 as f32 / u32 as f32
fdiv(n, d) ==
    IF d = 0 THEN NaN ELSE <<(n * Scale) \div d>>
\* f32::max, which ignores a NaN operand
fmax(a, b) ==
    IF a = NaN THEN b ELSE IF b = NaN THEN a ELSE IF a[1] >= b[1] THEN a ELSE b
\* a <= b, false when either is NaN
fle(a, b) == a # NaN /\ b # NaN /\ a[1] <= b[1]

Vec2(x, y) == [x |-> x, y |-> y]
ZERO == Vec2(Num(0), Num(0))
vadd(v, w) == Vec2(fadd(v.x, w.x), fadd(v.y, w.y))
vneg(v) == Vec2(fneg(v.x), fneg(v.y))
vscale(v, f) == Vec2(fmul(v.x, f), fmul(v.y, f))

Axes == {"Vertical", "Horizontal"}

\* AxisDirections for Vec2 and for SizeHints
main_dir(v, axis) == IF axis = "Vertical" THEN v.y ELSE v.x
cross_dir(v, axis) == IF axis = "Vertical" THEN v.x ELSE v.y

\* Axis::new_vec2
new_vec2(axis, main, cross) ==
    IF axis = "Vertical" THEN Vec2(cross, main) ELSE Vec2(main, cross)

\* Rect::from_min_size, Rect::translate, Rect::size
from_min_size(min, size) == [min |-> min, max |-> vadd(min, size)]
rect_translate(r, v) == [min |-> vadd(r.min, v), max |-> vadd(r.max, v)]
rect_size(r) == vadd(r.max, vneg(r.min))

\* Layout::leaf and Layout::with_children
leaf(size) == [bounds |-> from_min_size(ZERO, size), children |-> <<>>]
with_children(size, children) ==
    [bounds |-> from_min_size(ZERO, size), children |-> children]

\* Layout::translate
translate(l, translation) == [l EXCEPT !.bounds = rect_translate(@, translation)]

\* Layout::translate_cross and Layout::translate_main
translate_cross(l, axis, d) ==
    IF axis = "Vertical" THEN translate(l, Vec2(d, Num(0)))
    ELSE translate(l, Vec2(Num(0), d))
translate_main(l, axis, d) ==
    IF axis = "Vertical" THEN translate(l, Vec2(Num(0), d))
    ELSE translate(l, Vec2(d, Num(0)))

\* Layout::translated
translated(l, translation) == translate(l, translation)

\* Variant of clear_translation that keeps the offset the node already has.
clear_translation_kept(l) == l

\* Layout::clear_translation
clear_translation(l) == translated(l, vneg(l.bounds.min))

\* SizeHint::or_force
or_force(hint, force_shrink) == IF force_shrink THEN "Shrink" ELSE hint

\* The widgets put into a box: a Spacer of a minimum size with its hints and
\* weight, and a SizedContainer that gives its contents a size of its own.
Spacer(min_size, size_hints, weight) ==
    [widget |-> "Spacer", min_size |-> min_size,
     layout_hints |-> [size_hints |-> size_hints, weight |-> weight]]
SizedContainer(size, contents) ==
    [widget |-> "SizedContainer", size |-> size, contents |-> contents,
     layout_hints |-> contents.layout_hints]

\* Spacer::layout
spacer_layout(w, available, force_shrink) ==
    leaf(Vec2(IF or_force(w.layout_hints.size_hints.width, force_shrink) = "Shrink"
              THEN w.min_size.x ELSE available.x,
              IF or_force(w.layout_hints.size_hints.height, force_shrink) = "Shrink"
              THEN w.min_size.y ELSE available.y))

\* Widget::layout of a child: Spacer::layout, or SizedContainer::layout which
\* lays its contents out in self.size whatever it is offered
widget_layout(w, available, force_shrink) ==
    IF w.widget = "SizedContainer"
    THEN spacer_layout(w.contents, w.size, force_shrink)
    ELSE spacer_layout(w, available, force_shrink)

\* the size hint of a widget along the main or cross direction of an axis
hint_main(w, axis) ==
    IF axis = "Vertical" THEN w.layout_hints.size_hints.height
    ELSE w.layout_hints.size_hints.width
hint_cross(w, axis) ==
    IF axis = "Vertical" THEN w.layout_hints.size_hints.width
    ELSE w.layout_hints.size_hints.height

(***************************************************************************)
(* box_container.rs: BoxContainer::layout                                  *)
(***************************************************************************)
BoxContainer(axis, contents, separation, layout_hints, main_align, cross_align) ==
    [axis |-> axis, contents |-> contents, separation |-> separation,
     layout_hints |-> layout_hints, main_align |-> main_align,
     cross_align |-> cross_align]

RECURSIVE fsum(_)
fsum(seq) == IF seq = <<>> THEN Num(0) ELSE fadd(Head(seq), fsum(Tail(seq)))

RECURSIVE fmax_all(_, _)
fmax_all(acc, seq) == IF seq = <<>> THEN acc ELSE fmax_all(fmax(acc, Head(seq)), Tail(seq))

RECURSIVE isum(_)
isum(seq) == IF seq = <<>> THEN 0 ELSE Head(seq) + isum(Tail(seq))

\* the space the container occupies in the cross direction
cross_space(box, shrink_child_layouts, available, force_shrink) ==
    IF or_force(hint_cross(box, box.axis), force_shrink) = "Shrink"
    THEN fmax_all(Num(0), [i \in DOMAIN shrink_child_layouts |->
             cross_dir(rect_size(shrink_child_layouts[i].bounds), box.axis)])
    ELSE cross_dir(available, box.axis)

\* the early computations: total_filled_weight, total_shrink_space,
\* fill_child_count, total_separation and wiggle_room
box_metrics(box, shrink_child_layouts, available, force_shrink) ==
    LET n == Len(box.contents)
        fills == {i \in 1..n :
                     or_force(hint_main(box.contents[i], box.axis), force_shrink) = "Fill"}
        total_filled_weight ==
            isum([i \in 1..n |-> IF i \in fills
                                 THEN box.contents[i].layout_hints.weight ELSE 0])
        total_shrink_space ==
            fsum([i \in 1..n |-> IF i \in fills THEN Num(0)
                  ELSE main_dir(rect_size(shrink_child_layouts[i].bounds), box.axis)])
        total_separation == fmul(box.separation, Num(n - 1))
    IN [total_filled_weight |-> total_filled_weight,
        total_shrink_space |-> total_shrink_space,
        fill_child_count |-> Cardinality(fills),
        total_separation |-> total_separation,
        wiggle_room |-> fsub(main_dir(available, box.axis),
                             fadd(total_shrink_space, total_separation))]

\* Variant of c_available that offers every Fill child the same share.
c_available_even(box, ch, m, cross, available, main_offset, force_shrink) ==
    IF or_force(hint_main(ch, box.axis), force_shrink) = "Shrink"
    THEN new_vec2(box.axis, fsub(main_dir(available, box.axis), main_offset), cross)
    ELSE new_vec2(box.axis, fmul(m.wiggle_room, fdiv(1, m.fill_child_count)), cross)

\* c_available of one child of the real layout pass
c_available(box, ch, m, cross, available, main_offset, force_shrink) ==
    IF or_force(hint_main(ch, box.axis), force_shrink) = "Shrink"
    THEN new_vec2(box.axis, fsub(main_dir(available, box.axis), main_offset), cross)
    ELSE new_vec2(box.axis,
                  fmul(m.wiggle_room,
                       fdiv(ch.layout_hints.weight, m.total_filled_weight)),
                  cross)

\* The real layout pass from child i on: the children laid out and placed at
\* the running main_offset, what each was offered, and the final main_offset.
RECURSIVE place_children(_, _, _, _, _, _, _)
place_children(box, i, m, cross, available, main_offset, force_shrink) ==
    IF i > Len(box.contents)
    THEN [children |-> <<>>, offered |-> <<>>, main_offset |-> main_offset]
    ELSE LET ch == box.contents[i]
             c_av == c_available(box, ch, m, cross, available, main_offset, force_shrink)
             axis_vec == IF box.axis = "Vertical" THEN Vec2(Num(0), Num(1))
                         ELSE Vec2(Num(1), Num(0))
             ch_layout == translated(clear_translation(widget_layout(ch, c_av, force_shrink)),
                                     vscale(axis_vec, main_offset))
             rest == place_children(box, i + 1, m, cross, available,
                         fadd(main_offset,
                              fadd(main_dir(rect_size(ch_layout.bounds), box.axis),
                                   box.separation)),
                         force_shrink)
         IN [children |-> <<ch_layout>> \o rest.children,
             offered |-> <<c_av>> \o rest.offered,
             main_offset |-> rest.main_offset]

\* the cross-axis alignment of one child
align_cross(box, ch, ch_layout, cross, force_shrink) ==
    LET room == fsub(cross, cross_dir(rect_size(ch_layout.bounds), box.axis)) IN
    IF or_force(hint_cross(ch, box.axis), force_shrink) = "Fill" THEN ch_layout
    ELSE CASE box.cross_align = "Start" -> ch_layout
           [] box.cross_align = "End" -> translate_cross(ch_layout, box.axis, room)
           [] box.cross_align = "Center" ->
                  translate_cross(ch_layout, box.axis, fmul(room, Half))

\* the offset of the main-axis alignment
main_align_offset(box, available, content_main_size) ==
    CASE box.main_align = "Start" -> Num(0)
      [] box.main_align = "End" ->
             fsub(main_dir(available, box.axis), content_main_size)
      [] box.main_align = "Center" ->
             fmul(fsub(main_dir(available, box.axis), content_main_size), Half)

\* BoxContainer::layout: the Layout it returns, and the c_available each
\* child was offered in the real pass
box_layout(box, available, force_shrink) ==
    IF box.contents = <<>> THEN [layout |-> leaf(ZERO), offered |-> <<>>]
    ELSE
    LET n == Len(box.contents)
        shrink_child_layouts ==
            [i \in 1..n |-> widget_layout(box.contents[i], available, TRUE)]
        cross == cross_space(box, shrink_child_layouts, available, force_shrink)
        m == box_metrics(box, shrink_child_layouts, available, force_shrink)
        placed == place_children(box, 1, m, cross, available, Num(0), force_shrink)
        crossed == [i \in 1..n |->
                       align_cross(box, box.contents[i], placed.children[i], cross,
                                   force_shrink)]
        content_main_size == placed.main_offset
        offset == main_align_offset(box, available, content_main_size)
        children == IF m.fill_child_count = 0
                    THEN [i \in 1..n |-> translate_main(crossed[i], box.axis, offset)]
                    ELSE crossed
    IN [layout |-> with_children(
                       new_vec2(box.axis, main_dir(children[n].bounds.max, box.axis), cross),
                       children),
        offered |-> placed.offered]

\* A parent lays out a box container in the space it has.
LayoutBox(box, available, force_shrink) ==
    /\ pc # "panicked"
    /\ ret' = [op |-> "box_layout", box |-> box, available |-> available,
               force_shrink |-> force_shrink,
               result |-> box_layout(box, available, force_shrink)]
    /\ UNCHANGED <<inputVars, arbiterVars, runVars, cbVars, treeVars, hist>>

(***************************************************************************)
(* SpecBox: box containers of up to MaxChildren children laid out along    *)
(* either axis, with every alignment, with and without force_shrink. The   *)
(* children are Shrink spacers of three sizes, Fill spacers of weights     *)
(* 0..MaxWeight, and a SizedContainer around a Fill spacer. Each behaviour  *)
(* is one layout call.                                                     *)
(***************************************************************************)
Aligns == {"Start", "End", "Center"}

\* LayoutHints::shrink(), LayoutHints::fill() with a weight, and the default
shrink == [size_hints |-> [width |-> "Shrink", height |-> "Shrink"], weight |-> 0]
fill(weight) == [size_hints |-> [width |-> "Fill", height |-> "Fill"], weight |-> weight]
DefaultHints == [size_hints |-> [width |-> "Shrink", height |-> "Shrink"], weight |-> 1]

Square(side) == Vec2(Num(side), Num(side))

ShrinkSpacers == {Spacer(Square(side), shrink.size_hints, shrink.weight) : side \in {20, 30, 40}}
FillSpacers == {Spacer(Square(20), fill(w).size_hints, w) : w \in 0..MaxWeight}
SizedFill == SizedContainer(Square(300), Spacer(Square(20), fill(1).size_hints, 1))

BoxChildren == ShrinkSpacers \cup FillSpacers \cup {SizedFill}

ContentsOf(widgets) == UNION {[1..n -> widgets] : n \in 1..MaxChildren}

\* the main-axis sizes a parent offers, in a cross size of 100
BoxAvailable(axis) == {new_vec2(axis, Num(main), Num(100)) : main \in {60, 200, 405}}

BoxSeparations == {Num(0), Num(5)}

BoxStep ==
    /\ ret = NoRet
    /\ \E axis \in Axes, contents \in ContentsOf(BoxChildren),
          separation \in BoxSeparations, main_align \in Aligns, cross_align \in Aligns,
          force_shrink \in BOOLEAN :
           \E available \in BoxAvailable(axis) :
               LayoutBox(BoxContainer(axis, contents, separation, DefaultHints,
                                      main_align, cross_align),
                         available, force_shrink)

SpecBox == Init /\ [][BoxStep]_vars

\* The call of the last step, for the properties of box_layout.
Laid == ret.op = "box_layout"
Contents == ret.box.contents
Children == ret.result.layout.children
AvailableMain == main_dir(ret.available, ret.box.axis)
FillHinted(i) == or_force(hint_main(Contents[i], ret.box.axis), ret.force_shrink) = "Fill"
Extent(i) == main_dir(rect_size(Children[i].bounds), ret.box.axis)
MainMin(i) == main_dir(Children[i].bounds.min, ret.box.axis)
Gaps == <<ret.box.separation[1] * (Len(Contents) - 1)>>
ReportedMain == main_dir(rect_size(ret.result.layout.bounds), ret.box.axis)

\* the fixed main-axis size of each Shrink child, zero for the others
FixedSizes ==
    [i \in DOMAIN Contents |->
        IF Contents[i].widget = "Spacer" /\ ~FillHinted(i)
        THEN main_dir(Contents[i].min_size, ret.box.axis) ELSE Num(0)]

\* C23: for every non-empty child list of a box container with at least one
\* child Fill-hinted on the main axis and force-shrink off, the sum of the
\* children's laid-out main-axis extents plus separation*(n-1) does not
\* exceed the available main-axis size.
C23_FillChildrenStayWithinAvailable ==
    (/\ Laid
     /\ ~ret.force_shrink
     /\ \E i \in DOMAIN Contents : FillHinted(i))
    => fle(fadd(fsum([i \in DOMAIN Contents |-> Extent(i)]), Gaps), AvailableMain)

\* C24: with N children that are all Shrink-hinted on the main axis and have
\* fixed sizes S1..Sn, and an available main size larger than their total,
\* the container reports a main-axis size of exactly
\* sum(Si) + separation*(n-1).
C24_ShrinkChildrenReportedSize ==
    (/\ Laid
     /\ \A i \in DOMAIN Contents :
            Contents[i].widget = "Spacer" /\ hint_main(Contents[i], ret.box.axis) = "Shrink"
     /\ fle(fadd(fsum(FixedSizes), Gaps), AvailableMain)
     /\ fadd(fsum(FixedSizes), Gaps) # AvailableMain)
    => ReportedMain = fadd(fsum(FixedSizes), Gaps)

\* the three Shrink children of heights 20, 30 and 40
Scenario25 ==
    /\ Laid
    /\ ret.box.axis = "Vertical"
    /\ Contents = <<Spacer(Square(20), shrink.size_hints, shrink.weight),
                    Spacer(Square(30), shrink.size_hints, shrink.weight),
                    Spacer(Square(40), shrink.size_hints, shrink.weight)>>
    /\ ret.box.separation = Num(5)
    /\ ret.available.y = Num(200)
    /\ ret.box.main_align = "Center"

\* C25: a vertical box with three Shrink children of heights 20, 30 and 40,
\* separation 5, available height 200 and main-align Center places the
\* children at y-offsets 47.5, 72.5 and 107.5 and reports a container height
\* of 100.
C25_CenteredScenario ==
    Scenario25 =>
        /\ Children[1].bounds.min.y = fmul(Num(95), Half)
        /\ Children[2].bounds.min.y = fmul(Num(145), Half)
        /\ Children[3].bounds.min.y = fmul(Num(215), Half)
        /\ ret.result.layout.bounds.max.y = Num(100)

ReportedCross == cross_dir(rect_size(ret.result.layout.bounds), ret.box.axis)

\* C35: laid out with force-shrink engaged, a box container of fixed-size
\* children reports its natural size, sum of the main sizes plus
\* separation*(n-1) on the main axis and the largest child cross size on the
\* cross axis, whatever the available size and the alignments are.
C35_ForceShrinkReportsNaturalSize ==
    (/\ Laid
     /\ ret.force_shrink
     /\ \A i \in DOMAIN Contents : Contents[i].widget = "Spacer")
    => /\ ReportedMain = fadd(fsum(FixedSizes), Gaps)
       /\ ReportedCross =
              fmax_all(Num(0), [i \in DOMAIN Contents |-> cross_dir(Contents[i].min_size, ret.box.axis)])

(***************************************************************************)
(* SpecFill: box containers of Shrink spacers and Fill spacers of weights  *)
(* 0..MaxWeight with the default alignment, one layout call per behaviour. *)
(***************************************************************************)
FillStep ==
    /\ ret = NoRet
    /\ \E axis \in Axes, contents \in ContentsOf(ShrinkSpacers \cup FillSpacers),
          separation \in BoxSeparations, force_shrink \in BOOLEAN :
           \E available \in BoxAvailable(axis) :
               LayoutBox(BoxContainer(axis, contents, separation, DefaultHints,
                                      "Start", "Start"),
                         available, force_shrink)

SpecFill == Init /\ [][FillStep]_vars

FillSet == {i \in DOMAIN Contents : FillHinted(i)}
Weight(i) == Contents[i].layout_hints.weight
TotalWeight == isum([i \in DOMAIN Contents |-> IF FillHinted(i) THEN Weight(i) ELSE 0])

\* available_main - (total shrink size + separation*(n-1))
WiggleRoom == fsub(AvailableMain, fadd(fsum(FixedSizes), Gaps))

\* wiggle_room * weight / total_filled_weight, a division of zero by zero
\* giving NaN
Share(i) ==
    IF TotalWeight = 0 THEN NaN ELSE <<(WiggleRoom[1] \div TotalWeight) * Weight(i)>>

OfferedMain(i) == main_dir(ret.result.offered[i], ret.box.axis)

OffersSum == fsum([i \in DOMAIN Contents |-> IF FillHinted(i) THEN OfferedMain(i) ELSE Num(0)])

\* C26 as claimed: each child that is Fill-hinted on the main axis is offered
\* wiggle_room * weight / total_filled_weight, and the offers of all Fill
\* children add up to wiggle_room.
C26_OffersAddUpToWiggleRoom ==
    (Laid /\ FillSet # {}) =>
        /\ \A i \in FillSet : OfferedMain(i) = Share(i)
        /\ OffersSum = WiggleRoom

\* C26, amended: each child that is Fill-hinted on the main axis is offered
\* wiggle_room * weight / total_filled_weight, and the offers of all Fill
\* children add up to wiggle_room unless total_filled_weight is zero.
C26_OffersAddUpUnlessZeroWeight ==
    (Laid /\ FillSet # {}) =>
        /\ \A i \in FillSet : OfferedMain(i) = Share(i)
        /\ TotalWeight > 0 => OffersSum = WiggleRoom

C26_Witness ==
    /\ Laid
    /\ Len(Contents) = 2
    /\ FillSet = {1, 2}
    /\ Weight(1) = 1
    /\ Weight(2) = 3
    /\ WiggleRoom = Num(400)
    /\ Extent(1) = Num(100)
    /\ Extent(2) = Num(300)

(***************************************************************************)
(* SpecPlace: a container places a child layout as BoxContainer does,      *)
(* clear_translation followed by translated(v). The child layout comes     *)
(* from Layout::leaf or Layout::with_children, translated by its own       *)
(* widget or not; its children keep coordinates of their own.              *)
(***************************************************************************)
Place(l, v) ==
    /\ pc # "panicked"
    /\ ret' = [op |-> "place", layout |-> l, v |-> v,
               result |-> translated(clear_translation(l), v)]
    /\ UNCHANGED <<inputVars, arbiterVars, runVars, cbVars, treeVars, hist>>

PlaceCoords == {Num(c) : c \in {-5, 0, 7}}
PlaceVectors == {Vec2(x, y) : x \in PlaceCoords, y \in PlaceCoords}
PlaceSizes == {Vec2(Num(w), Num(h)) : w \in {0, 20}, h \in {10}}
PlaceGrandchildren == {leaf(size) : size \in PlaceSizes}
                          \cup {translated(leaf(size), Vec2(Num(3), Num(4))) : size \in PlaceSizes}
PlaceLayouts ==
    {translated(with_children(size, children), own) :
        size \in PlaceSizes, own \in PlaceVectors,
        children \in {<<>>} \cup {<<c>> : c \in PlaceGrandchildren}
                          \cup {<<c, c>> : c \in PlaceGrandchildren}}

PlaceStep ==
    /\ ret = NoRet
    /\ \E l \in PlaceLayouts, v \in PlaceVectors : Place(l, v)

SpecPlace == Init /\ [][PlaceStep]_vars

Placed == ret.op = "place"

\* C27: after clear_translation followed by translated(v), the node's min
\* corner equals v, its size is what it was before, and its children are
\* the ones it had, with their bounds untouched.
C27_PlacedAtVector ==
    Placed =>
        /\ ret.result.bounds.min = ret.v
        /\ rect_size(ret.result.bounds) = rect_size(ret.layout.bounds)
        /\ ret.result.children = ret.layout.children

C27_Witness ==
    /\ Placed
    /\ ret.layout.bounds.min = Vec2(Num(7), Num(-5))
    /\ ret.v = Vec2(Num(-5), Num(7))
    /\ Len(ret.layout.children) = 2
    /\ ret.layout.children[1].bounds.min = Vec2(Num(3), Num(4))
    /\ ret.result.bounds = from_min_size(ret.v, Vec2(Num(20), Num(10)))

(***************************************************************************)
(* drag_value.rs: DragValue. An f64 is an integer number of halves, and    *)
(* the widget is the integer DragValue (num_decimals = 0). A bound of a    *)
(* range is Nothing when it is infinite. A string is the number it was     *)
(* formatted from or typed as, or a text that does not parse.              *)
(***************************************************************************)
Unbounded == [start |-> Nothing, end |-> Nothing]
Range(lo, hi) == [start |-> Some(lo), end |-> Some(hi)]

\* f64::clamp
clamp(val, lo, hi) ==
    IF lo # Nothing /\ val < lo[1] THEN lo[1]
    ELSE IF hi # Nothing /\ val > hi[1] THEN hi[1]
    ELSE val

\* f64::round: to the nearest integer, half away from zero
round(val) ==
    IF val >= 0 THEN ((val + 1) \div 2) * 2 ELSE -(((1 - val) \div 2) * 2)

\* DragValue::format_contents and DragValue::contents_from_string
format_contents(contents) == <<"number", round(contents)>>
contents_from_string(str) == IF str[1] = "number" THEN Some(str[2]) ELSE Nothing

\* MOUSE_PRECISION of DragValue::on_event
MOUSE_PRECISION == <<20, 50>>

\* A DragValue as the application builds it every frame
DragValue(value, speed, scale_selector, soft_range, hard_range) ==
    [value |-> value, speed |-> speed, scale_selector |-> scale_selector,
     soft_range |-> soft_range, hard_range |-> hard_range]

\* The DragValueState that DragValue::layout stores when there is none
NewDragValueState(dv, focused) ==
    [last_focus_state |-> focused, last_drag_state |-> FALSE,
     string_contents |-> format_contents(dv.value), acc_drag |-> <<0, 0>>,
     selected_row |-> Nothing, draw_scale_selector |-> FALSE,
     upper_soft_limit |-> FALSE, lower_soft_limit |-> FALSE]

\* DragValue::clamp_and_round_value
clamp_and_round_value(dv, state, val) ==
    LET lower_bound == IF state.lower_soft_limit THEN dv.hard_range.start
                       ELSE dv.soft_range.start
        upper_bound == IF state.upper_soft_limit THEN dv.hard_range.end
                       ELSE dv.soft_range.end
    IN round(clamp(val, lower_bound, upper_bound))

\* The drag branch of DragValue::on_event: the state it leaves, the value it
\* hands to on_changed, and the panic of selected_row.expect when a scale
\* selector is set and no row was ever selected
drag_branch(dv, state, just_dragged, delta, modify_scale) ==
    LET len == Len(dv.scale_selector[1])
        started ==
            IF dv.scale_selector # Nothing /\ just_dragged
            THEN [state EXCEPT
                    !.selected_row = IF @ = Nothing THEN Some(len \div 2) ELSE @,
                    !.lower_soft_limit = dv.soft_range.start # Nothing
                                             /\ dv.value <= dv.soft_range.start[1],
                    !.upper_soft_limit = dv.soft_range.end # Nothing
                                             /\ dv.value >= dv.soft_range.end[1]]
            ELSE state
        rowed ==
            IF dv.scale_selector # Nothing /\ started.selected_row # Nothing
            THEN [started EXCEPT !.selected_row = Some(clamp(@[1], Some(0), Some(len - 1)))]
            ELSE started
        acc == IF modify_scale
               THEN <<rowed.acc_drag[1], rowed.acc_drag[2] + delta[2]>>
               ELSE <<rowed.acc_drag[1] + delta[1], rowed.acc_drag[2]>>
        discrete_increments ==
            <<acc[1] \div MOUSE_PRECISION[1], acc[2] \div MOUSE_PRECISION[2]>>
        row == clamp(rowed.selected_row[1] - discrete_increments[2], Some(0), Some(len - 1))
        remaining ==
            [rowed EXCEPT
               !.acc_drag = <<acc[1] % MOUSE_PRECISION[1], acc[2] % MOUSE_PRECISION[2]>>]
        moved ==
            [remaining EXCEPT
               !.selected_row = IF dv.scale_selector # Nothing THEN Some(row) ELSE @]
        speed == IF dv.scale_selector # Nothing
                 THEN dv.speed * dv.scale_selector[1][row + 1]
                 ELSE dv.speed
        delta_value == discrete_increments[1] * speed
    IN IF dv.scale_selector # Nothing /\ rowed.selected_row = Nothing
       THEN [state |-> remaining, emitted |-> Nothing, error |-> "should_be_initialized"]
       ELSE [state |-> moved,
             emitted |-> Some(clamp_and_round_value(dv, moved, dv.value + delta_value)),
             error |-> "none"]

\* DragValue::on_event from the computation of focused_now on: dragging is
\* what claim_drag_event returned, result what the inner TextEdit handed to
\* its on_changed callback
drag_value_on_event(dv, state, focused_now, dragging, result, delta, modify_scale) ==
    LET just_focused == state.last_focus_state # focused_now /\ focused_now
        just_dragged == dragging # state.last_drag_state /\ dragging
        seen == [state EXCEPT
                   !.last_focus_state = focused_now,
                   !.last_drag_state = dragging,
                   !.string_contents = IF just_focused THEN format_contents(dv.value) ELSE @,
                   !.draw_scale_selector = dragging /\ dv.scale_selector # Nothing]
    IN IF focused_now
       THEN IF result # Nothing
            THEN [state |-> [seen EXCEPT !.string_contents = result[1]],
                  emitted |-> IF contents_from_string(result[1]) # Nothing
                              THEN Some(clamp_and_round_value(
                                            dv, seen, contents_from_string(result[1])[1]))
                              ELSE Nothing,
                  error |-> "none"]
            ELSE [state |-> seen, emitted |-> Nothing, error |-> "none"]
       ELSE IF dragging
            THEN drag_branch(dv, seen, just_dragged, delta, modify_scale)
            ELSE [state |-> seen, emitted |-> Nothing, error |-> "none"]

\* One frame of the DragValue w1 that edits the application's bar.x: layout
\* stores the widget state if there is none, on_event requests the focus on
\* a click inside, handles the frame's typing or dragging and hands the new
\* value to on_changed, which the application stores in bar.x. The inner
\* TextEdit gives the focus up on Escape.
DragValueFrame(dv, clicked_inside, dragging, result, escape, delta, modify_scale) ==
    LET key == Key("w1", "DragValueState")
        laid == ensure(memory, key, NewDragValueState(dv, is_focused(focus, "w1")))
        requested == IF clicked_inside THEN request_focus(focus, "w1") ELSE focus
        focused_now == is_focused(requested, "w1")
        out == drag_value_on_event(dv, laid[key], focused_now, dragging,
                                   IF focused_now THEN result ELSE Nothing,
                                   delta, modify_scale)
    IN /\ pc # "panicked"
       /\ dv.value = app.bar.x
       /\ out.emitted # Nothing =>
              out.emitted[1] \in -MaxDragValue..MaxDragValue
       /\ memory' = [laid EXCEPT ![key] = out.state]
       /\ focus' = IF focused_now /\ escape /\ out.error = "none" THEN release_focus(requested, "w1")
                   ELSE requested
       /\ app' = IF out.emitted = Nothing THEN app
                  ELSE [app EXCEPT !.bar.x = out.emitted[1]]
       /\ pc' = IF out.error = "none" THEN pc ELSE "panicked"
       /\ ret' = [op |-> "drag_value", widget |-> dv, typed |-> focused_now,
                  emitted |-> out.emitted, error |-> out.error]
       /\ UNCHANGED <<inputVars, drag, events, accessors, cbas, external, internal,
                      next_token, handles, layout, pass, hist>>

(***************************************************************************)
(* SpecDrag: frames of one DragValue with the same speed, scale selector   *)
(* and ranges in every frame, under every sequence of clicks, typing,      *)
(* Escape and drags.                                                       *)
(***************************************************************************)
DragSpeeds == {1, 2}
DragSelectors == {Nothing, Some(<<2, 1>>)}
DragSoftRanges == {Unbounded, Range(-2, 2)}
DragHardRanges == {Unbounded, Range(-4, 4)}
DragTyped == {<<"text">>} \cup {<<"number", v>> : v \in {1, MaxDragValue, -MaxDragValue}}
DragDeltas == {<<-20, 0>>, <<10, 0>>, <<20, 0>>, <<0, 50>>, <<0, -50>>}

\* the widget of the first frame is any of the configurations, the widget
\* of a later frame is the one of the frame before with the value of bar.x
DragWidgets ==
    IF ret = NoRet
    THEN {DragValue(app.bar.x, speed, scale_selector, soft_range, hard_range) :
            speed \in DragSpeeds, scale_selector \in DragSelectors,
            soft_range \in DragSoftRanges, hard_range \in DragHardRanges}
    ELSE {[ret.widget EXCEPT !.value = app.bar.x]}

\* a frame with the cursor at rest: clicks, typing and Escape, with or
\* without a drag being held
DragType ==
    \E dv \in DragWidgets, clicked_inside \in BOOLEAN, dragging \in BOOLEAN,
       result \in {Nothing} \cup {Some(str) : str \in DragTyped}, escape \in BOOLEAN :
        DragValueFrame(dv, clicked_inside, dragging, result, escape, <<0, 0>>, FALSE)

\* a frame in which the cursor moves during a drag the widget holds
DragMove ==
    \E dv \in DragWidgets, delta \in DragDeltas, modify_scale \in BOOLEAN :
        DragValueFrame(dv, FALSE, TRUE, Nothing, FALSE, delta, modify_scale)

NextDrag == DragType \/ DragMove

SpecDrag == Init /\ [][NextDrag]_vars

InRange(val, range) ==
    /\ range.start # Nothing => range.start[1] <= val
    /\ range.end # Nothing => val <= range.end[1]

\* C29: every value a DragValue hands to on_changed, produced by dragging or
\* by typing into its text field, lies within hard_range.
C29_EmittedWithinHardRange ==
    (ret.op = "drag_value" /\ ret.emitted # Nothing) =>
        InRange(ret.emitted[1], ret.widget.hard_range)

\* C34: whenever draw_scale_selector is true in the DragValueState,
\* selected_row is set, so that DragValue::draw finds the row it expects.
C34_SelectorDrawnHasRow ==
    \A key \in DOMAIN memory :
        (key[2] = "DragValueState" /\ memory[key].draw_scale_selector) =>
            memory[key].selected_row # Nothing

(***************************************************************************)
(* callback_accessor.rs: CallbackAccessor<T>. accessor_fns is the vector   *)
(* of closures; a closure is the type it downcasts its argument to and the *)
(* field it borrows. typ is the T of the PhantomData.                      *)
(***************************************************************************)
\* The fields of the types of tests::test_drill_down and their types
FieldsOf ==
    [typ \in Types \cup {"f32"} |->
        CASE typ = "State" -> [foo |-> "Foo", bar |-> "Bar"]
          [] typ = "Foo" -> [baz |-> "Baz"]
          [] typ = "Bar" -> [x |-> "f32"]
          [] typ = "Baz" -> [y |-> "f32"]
          [] OTHER -> <<>>]

\* CallbackAccessor::root
root(typ) == [accessor_fns |-> <<>>, typ |-> typ]

\* Variant of drill_down that puts the new closure in front of the ones it
\* cloned.
drill_down_first(cba, field) ==
    [accessor_fns |-> <<[typ |-> cba.typ, field |-> field]>> \o cba.accessor_fns,
     typ |-> FieldsOf[cba.typ][field]]

\* CallbackAccessor::drill_down with the closure |t| &mut t.field: a new
\* accessor whose vector is a clone of self.accessor_fns with the closure
\* pushed
drill_down(cba, field) ==
    [accessor_fns |-> Append(cba.accessor_fns, [typ |-> cba.typ, field |-> field]),
     typ |-> FieldsOf[cba.typ][field]]

RECURSIVE access_from(_, _, _, _)
\* The loop of access_any: curr and its type after the closures from k on,
\* and the panic of a closure whose downcast fails
access_from(fns, k, curr, typ) ==
    IF k > Len(fns) THEN [error |-> "none", fields |-> curr, typ |-> typ]
    ELSE IF fns[k].typ # typ THEN [error |-> "failed_downcast", fields |-> curr, typ |-> typ]
    ELSE access_from(fns, k + 1, Append(curr, fns[k].field), FieldsOf[typ][fns[k].field])

\* CallbackAccessor::access_any: the place in the root state the returned
\* reference borrows, as the chain of fields from the root
access_any(cba, root_typ) == access_from(cba.accessor_fns, 1, <<>>, root_typ)

\* The application creates a root accessor.
CbaRoot ==
    /\ pc # "panicked"
    /\ Len(cbas) < MaxAccessors
    /\ cbas' = Append(cbas, root(RootType))
    /\ ret' = [op |-> "root", result |-> Len(cbas) + 1]
    /\ UNCHANGED <<inputVars, arbiterVars, runVars, accessors, external, internal,
                   next_token, app, treeVars>>

\* The application derives an accessor from the one it holds at index i.
CbaDrillDown(i, field) ==
    /\ pc # "panicked"
    /\ Len(cbas) < MaxAccessors
    /\ cbas' = Append(cbas, drill_down(cbas[i], field))
    /\ ret' = [op |-> "drill_down", from |-> i, field |-> field, result |-> Len(cbas) + 1]
    /\ UNCHANGED <<inputVars, arbiterVars, runVars, accessors, external, internal,
                   next_token, app, treeVars>>

\* The application calls access_any on its state with the accessor at index
\* i, downcasts the result to the accessor's type and assigns t through it.
CbaWrite(i, t) ==
    LET found == access_any(cbas[i], RootType) IN
    /\ pc # "panicked"
    /\ pc' = IF found.error = "none" /\ found.typ = cbas[i].typ THEN pc ELSE "panicked"
    /\ app' = IF pc' = "panicked" THEN app ELSE Put(app, found.fields, t)
    /\ ret' = [op |-> "access_any", accessor |-> i,
               error |-> IF pc' = "panicked" THEN "failed_downcast" ELSE "none",
               result |-> IF found.error = "none" THEN Some(Get(app, found.fields))
                          ELSE Nothing,
               assigned |-> t]
    /\ UNCHANGED <<inputVars, arbiterVars, events, accessors, cbas, external, internal,
                   next_token, treeVars>>

(***************************************************************************)
(* SpecAccessor: the application of tests::test_drill_down creating root   *)
(* accessors, drilling down from any accessor it holds and writing through *)
(* any of them. The history records, for every accessor, the fields of the *)
(* drill_down calls that led to it, in the order of the calls.             *)
(***************************************************************************)
\* the values of a type, with leaves in Values
ValuesOf(typ) ==
    CASE typ = "f32" -> Values
      [] typ = "Baz" -> [y : Values]
      [] typ = "Bar" -> [x : Values]
      [] typ = "Foo" -> [baz : [y : Values]]
      [] typ = "State" -> [foo : [baz : [y : Values]], bar : [x : Values]]

AccRoot ==
    /\ CbaRoot
    /\ hist' = [hist EXCEPT !.drilled = Append(@, <<>>)]

AccDrillDown ==
    \E i \in DOMAIN cbas :
        \E field \in DOMAIN FieldsOf[cbas[i].typ] :
            /\ CbaDrillDown(i, field)
            /\ hist' = [hist EXCEPT !.drilled = Append(@, Append(@[i], field))]

AccWrite ==
    \E i \in DOMAIN cbas :
        \E t \in ValuesOf(cbas[i].typ) :
            /\ CbaWrite(i, t)
            /\ UNCHANGED hist

NextAccessor == AccRoot \/ AccDrillDown \/ AccWrite

SpecAccessor == Init /\ [][NextAccessor]_vars

\* the chains of fields from the root state to each of its parts
StatePaths == {<<>>, <<"foo">>, <<"bar">>, <<"foo", "baz">>, <<"bar", "x">>,
               <<"foo", "baz", "y">>}

\* path lies inside the part of the state selected by chain, or contains it
Overlaps(chain, path) ==
    \A k \in 1..Len(chain) : k <= Len(path) => path[k] = chain[k]

\* the part of state s selected by projecting the fields of chain in order
Selected(s, chain) ==
    CASE Len(chain) = 0 -> s
      [] Len(chain) = 1 -> s[chain[1]]
      [] Len(chain) = 2 -> s[chain[1]][chain[2]]
      [] Len(chain) = 3 -> s[chain[1]][chain[2]][chain[3]]

\* C30: an accessor built by a chain of drill_down calls applies its
\* projections in the order they were drilled, starting from the root:
\* access_any on the root state returns the sub-state the chain selects, a
\* write through it changes that sub-state only, and drill_down leaves the
\* accessors that exist, the one it was derived from among them, unchanged.
C30_DrillDownChainSelectsSubState ==
    [][/\ ret'.op = "drill_down" =>
              \A i \in DOMAIN cbas : i \in DOMAIN cbas' /\ cbas'[i] = cbas[i]
       /\ ret'.op = "access_any" =>
              LET chain == hist.drilled[ret'.accessor] IN
              /\ ret'.error = "none"
              /\ ret'.result = Some(Selected(app, chain))
              /\ Selected(app', chain) = ret'.assigned
              /\ \A path \in StatePaths :
                     ~Overlaps(chain, path) => Selected(app', path) = Selected(app, path)]_vars

\* The state of tests::test_drill_down at its assertions: after a write to
\* bar.x through the accessor drilled to bar, the accessor drilled through
\* foo and then baz has written baz.y.
C30_Witness ==
    /\ ret.op = "access_any"
    /\ hist.drilled[ret.accessor] = <<"foo", "baz">>
    /\ \E i \in DOMAIN cbas : hist.drilled[i] = <<"bar">>
    /\ ret.result = Some([y |-> 0])
    /\ app.foo.baz.y = 1
    /\ app.bar.x = 1

(***************************************************************************)
(* Widget identities. IdGen::key resolves to the parent identity extended  *)
(* by the local key, IdGen::literal to the same identity under any parent. *)
(* A WidgetId is the path of names it was derived from.                    *)
(***************************************************************************)
key(name) == [kind |-> "key", name |-> name]
literal(name) == [kind |-> "literal", name |-> name]

\* IdGen::resolve
resolve(id, parent_id) ==
    IF id.kind = "key" THEN Append(parent_id, id.name) ELSE <<id.name>>

\* WidgetId::new("__ROOT__"), the parent identity Context::run gives the root
ROOT == <<"__ROOT__">>

\* The widgets whose identities are followed: a DragValue, whose layout
\* initialises its state in the memory, a Button, taken with its text, a
\* BoxContainer, a VScrollContainer and a SplitPaneContainer, whose layout
\* initialises its state too.
DragValueWidget(id) == [widget |-> "DragValue", id |-> id]
ButtonWidget(id) == [widget |-> "Button", id |-> id]
SplitPaneContainer(id, left_widget, right_widget) ==
    [widget |-> "SplitPaneContainer", id |-> id,
     left_widget |-> left_widget, right_widget |-> right_widget]
BoxWidget(id, contents) == [widget |-> "BoxContainer", id |-> id, contents |-> contents]
VScrollContainer(id, contents) ==
    [widget |-> "VScrollContainer", id |-> id, contents |-> contents]

\* One layout call: the identity of the widget that made it, the place of
\* the callee in the tree, the parent identity it was given and the
\* identity the callee resolved for itself.
LayoutCall(by, at, parent_id, widget_id, w, force_shrink) ==
    [by |-> by, at |-> at, parent_id |-> parent_id, widget_id |-> widget_id,
     widget |-> w.widget, force_shrink |-> force_shrink]

RECURSIVE layout_calls(_, _, _, _, _), layout_each(_, _, _, _, _, _)
\* The layout calls made on the widgets contents[k..] of the container at
\* place at, one after the other
layout_each(contents, k, by, at, parent_id, force_shrink) ==
    IF k > Len(contents) THEN <<>>
    ELSE layout_calls(contents[k], by, Append(at, k), parent_id, force_shrink)
             \o layout_each(contents, k + 1, by, at, parent_id, force_shrink)

\* Widget::layout of w called by the widget of identity by: the call and
\* the calls it leads to, in order. BoxContainer measures every child with
\* force_shrink and then lays it out, VScrollContainer does the same with
\* its one child.
layout_calls(w, by, at, parent_id, force_shrink) ==
    LET widget_id == resolve(w.id, parent_id)
        me == <<LayoutCall(by, at, parent_id, widget_id, w, force_shrink)>>
    IN CASE w.widget \in {"DragValue", "Button"} -> me
         [] w.widget = "SplitPaneContainer" ->
                me \o layout_calls(w.left_widget, widget_id, Append(at, 1), widget_id,
                                   FALSE)
                   \o layout_calls(w.right_widget, widget_id, Append(at, 2), widget_id,
                                   FALSE)
         [] w.widget = "BoxContainer" ->
                me \o layout_each(w.contents, 1, widget_id, at, parent_id, TRUE)
                   \o layout_each(w.contents, 1, widget_id, at, widget_id, force_shrink)
         [] w.widget = "VScrollContainer" ->
                me \o layout_calls(w.contents, widget_id, Append(at, 1), parent_id, TRUE)
                   \o layout_calls(w.contents, widget_id, Append(at, 1), parent_id,
                                   force_shrink)

RECURSIVE ensure_all(_, _, _)
\* SplitPaneContainerState { frac: self.default_frac, dragging: false }
NewSplitPaneContainerState == [frac |-> "default_frac", dragging |-> FALSE]

\* the memory after the get_or of every DragValue::layout, and the get_frac
\* of every SplitPaneContainer::layout, among calls[k..]
ensure_all(mem, calls, k) ==
    IF k > Len(calls) THEN mem
    ELSE ensure_all(CASE calls[k].widget = "DragValue" ->
                             ensure(mem, Key(calls[k].widget_id, "DragValueState"), "new")
                      [] calls[k].widget = "SplitPaneContainer" ->
                             ensure(mem, Key(calls[k].widget_id, "SplitPaneContainerState"),
                                    NewSplitPaneContainerState)
                      [] OTHER -> mem,
                    calls, k + 1)

\* The layout of Context::run on the tree the application declared
LayoutTree(w) ==
    /\ pc # "panicked"
    /\ LET calls == layout_calls(w, ROOT, <<>>, ROOT, FALSE) IN
         /\ memory' = ensure_all(memory, calls, 1)
         /\ ret' = [op |-> "layout", widget |-> w, calls |-> calls]
    /\ UNCHANGED <<inputVars, arbiterVars, runVars, cbVars, handles, layout, pass, hist>>

(***************************************************************************)
(* SpecIds: the layout of every tree of a root container over DragValues   *)
(* and containers of DragValues, with up to MaxSiblings children in a box. *)
(***************************************************************************)
IdGens == {key("a"), key("b"), literal("c")}
IdLeaves == {DragValueWidget(id) : id \in IdGens}
ContainersOf(widgets) ==
    {BoxWidget(key("box"), contents) :
        contents \in UNION {[1..n -> widgets] : n \in 1..MaxSiblings}}
        \cup {VScrollContainer(key("scroll"), contents) : contents \in widgets}

IdsStep ==
    /\ ret = NoRet
    /\ \E w \in ContainersOf(IdLeaves \cup ContainersOf(IdLeaves)) : LayoutTree(w)

SpecIds == Init /\ [][IdsStep]_vars

\* C31: every layout call a container makes on a child, measurement passes
\* included, passes the container's own resolved identity as the parent
\* identity, and every widget resolves to one identity in all the layout
\* calls of the frame, so that it touches the same memory keys.
C31_ChildrenGetResolvedParent ==
    ret.op = "layout" =>
        /\ \A k \in DOMAIN ret.calls :
               ret.calls[k].at # <<>> => ret.calls[k].parent_id = ret.calls[k].by
        /\ \A k, m \in DOMAIN ret.calls :
               ret.calls[k].at = ret.calls[m].at =>
                   ret.calls[k].widget_id = ret.calls[m].widget_id


(***************************************************************************)
(* The on_event and draw phases over a tree of widgets. The events of a    *)
(* frame are one event of the batch and the place of the widget the cursor *)
(* is over: the bounds of a widget contain the cursor when its place is a  *)
(* prefix of that place. The mouse does not move, so that its delta is     *)
(* zero and no button is dragging. The phases thread the entries of the    *)
(* memory, the bag of the handles that are live, the panic that ended the  *)
(* frame and where it happened, the EventStatus returned by the last       *)
(* on_event, and the record of every call made on a child.                 *)
(***************************************************************************)
PhaseEvent(type, target, delta_y) == [type |-> type, target |-> target, delta_y |-> delta_y]

PhaseState(mem) ==
    [memory |-> mem, live |-> EmptyBag, error |-> "none", panic_in |-> "none",
     status |-> "Ignored", calls |-> <<>>]

Fails(s) == s.error # "none"

\* the function fn of the widget of kind widget
In(widget, fn) == [widget |-> widget, fn |-> fn]

\* The outcome out of a call on the memory made in who: the panic, or the
\* entries it leaves and, when the caller keeps the handle in a variable,
\* the handle among the live ones. A temporary is dropped at the end of its
\* statement.
borrowed(s, out, who, kept) ==
    IF out.error # "none" THEN [s EXCEPT !.error = out.error, !.panic_in = who]
    ELSE [s EXCEPT !.memory = out.memory,
                   !.live = IF kept THEN s.live (+) SetToBag({out.handle[1]})
                            ELSE s.live]

\* the handle h goes out of scope at the end of the function
dropped(s, h) == [s EXCEPT !.live = s.live (-) SetToBag({h})]

\* the widget of identity by calls fn of its child at place at
called(s, by, fn, at) ==
    [s EXCEPT !.calls = Append(s.calls, [by |-> by, fn |-> fn, at |-> at,
                                         live |-> s.live])]

\* state.scrollbar_frac = (state.scrollbar_frac - delta.y * 0.05).clamp(0.0, 1.0),
\* the fraction in twentieths
scrolled(scrollbar_frac, delta_y) == clamp(scrollbar_frac - delta_y, Some(0), Some(20))

RECURSIVE widget_on_event(_, _, _, _, _), on_event_each(_, _, _, _, _, _)
\* BoxContainer::on_event on contents[k..]: the first child that consumes
\* the events ends the loop
on_event_each(contents, k, widget_id, at, s, ev) ==
    IF k > Len(contents) THEN [s EXCEPT !.status = "Ignored"]
    ELSE LET t == widget_on_event(contents[k], Append(at, k), widget_id,
                                  called(s, widget_id, "on_event", Append(at, k)), ev)
         IN IF Fails(t) \/ t.status = "Consumed" THEN t
            ELSE on_event_each(contents, k + 1, widget_id, at, t, ev)

\* Widget::on_event of w, at place at, laid out under parent_id
widget_on_event(w, at, parent_id, s, ev) ==
    LET widget_id == resolve(w.id, parent_id)
        inside == IsPrefix(at, ev.target)
    IN CASE Fails(s) -> s
         [] w.widget = "Button" ->
                [s EXCEPT !.status = IF inside /\ ev.type = "MousePressed"
                                     THEN "Consumed" ELSE "Ignored"]
         [] w.widget = "BoxContainer" -> on_event_each(w.contents, 1, widget_id, at, s, ev)
         [] w.widget = "VScrollContainer" ->
                LET who == In("VScrollContainer", "on_event")
                    state == Key(widget_id, "VScrollContainerState")
                    read == borrowed(s, get_or(s.memory, s.live, state, 0), who, FALSE)
                    ch == widget_on_event(w.contents, Append(at, 1), parent_id,
                                          called(read, widget_id, "on_event",
                                                 Append(at, 1)), ev)
                    held == borrowed(ch, get_mut(ch.memory, ch.live, state), who, TRUE)
                    wheel == inside /\ ev.type = "MouseWheel"
                IN IF Fails(read) THEN read
                   ELSE IF Fails(ch) \/ ch.status = "Consumed" THEN ch
                   ELSE IF Fails(held) THEN held
                   ELSE dropped([held EXCEPT
                                    !.memory[state] =
                                        IF wheel THEN scrolled(@, ev.delta_y) ELSE @,
                                    !.status = IF wheel THEN "Consumed" ELSE "Ignored"],
                                Handle(state, TRUE))
         [] w.widget = "SplitPaneContainer" ->
                LET who == In("SplitPaneContainer", "on_event")
                    state == Key(widget_id, "SplitPaneContainerState")
                    held == borrowed(s, get_mut(s.memory, s.live, state), who, TRUE)
                    pressed == ev.target = at /\ ev.type = "MousePressed"
                    released_ == ev.type = "MouseReleased"
                    dragging == IF released_ THEN FALSE
                                ELSE IF pressed THEN TRUE
                                ELSE held.memory[state].dragging
                    mine == [held EXCEPT !.memory[state].dragging = dragging,
                                         !.status = IF pressed \/ released_ \/ dragging
                                                    THEN "Consumed" ELSE "Ignored"]
                    left == widget_on_event(w.left_widget, Append(at, 1), widget_id,
                                            called(mine, widget_id, "on_event",
                                                   Append(at, 1)), ev)
                    right == widget_on_event(w.right_widget, Append(at, 2), widget_id,
                                             called(left, widget_id, "on_event",
                                                    Append(at, 2)), ev)
                    after == IF mine.status = "Consumed" THEN mine
                             ELSE IF Fails(left) \/ left.status = "Consumed" THEN left
                             ELSE right
                IN IF Fails(held) THEN held
                   ELSE IF Fails(after) THEN after
                   ELSE dropped(after, Handle(state, TRUE))

RECURSIVE widget_draw(_, _, _, _), draw_each(_, _, _, _, _)
\* BoxContainer::draw on contents[k..]
draw_each(contents, k, widget_id, at, s) ==
    IF k > Len(contents) THEN s
    ELSE draw_each(contents, k + 1, widget_id, at,
                   widget_draw(contents[k], Append(at, k), widget_id,
                               called(s, widget_id, "draw", Append(at, k))))

\* Widget::draw of w, at place at, laid out under parent_id
widget_draw(w, at, parent_id, s) ==
    LET widget_id == resolve(w.id, parent_id)
    IN CASE Fails(s) -> s
         [] w.widget = "Button" -> s
         [] w.widget = "BoxContainer" -> draw_each(w.contents, 1, widget_id, at, s)
         [] w.widget = "VScrollContainer" ->
                LET read == borrowed(s, get(s.memory, s.live,
                                            Key(widget_id, "VScrollContainerState")),
                                     In("VScrollContainer", "draw"), FALSE)
                IN IF Fails(read) THEN read
                   ELSE widget_draw(w.contents, Append(at, 1), parent_id,
                                    called(read, widget_id, "draw", Append(at, 1)))
         [] w.widget = "SplitPaneContainer" ->
                LET state == Key(widget_id, "SplitPaneContainerState")
                    read == borrowed(s, get_or(s.memory, s.live, state,
                                               NewSplitPaneContainerState),
                                     In("SplitPaneContainer", "draw"), FALSE)
                    left == widget_draw(w.left_widget, Append(at, 1), widget_id,
                                        called(read, widget_id, "draw", Append(at, 1)))
                IN IF Fails(read) THEN read
                   ELSE IF Fails(left) THEN left
                   ELSE widget_draw(w.right_widget, Append(at, 2), widget_id,
                                    called(left, widget_id, "draw", Append(at, 2)))

\* The layout, on_event and draw of Context::run on the tree w the
\* application declared, with the events ev
PhasesFrame(w, ev) ==
    /\ pc # "panicked"
    /\ LET laid == PhaseState(ensure_all(memory, layout_calls(w, ROOT, <<>>, ROOT, FALSE), 1))
           drawn == widget_draw(w, <<>>, ROOT, widget_on_event(w, <<>>, ROOT, laid, ev))
       IN /\ memory' = drawn.memory
          /\ pc' = IF Fails(drawn) THEN "panicked" ELSE pc
          /\ ret' = [op |-> "frame", widget |-> w, event |-> ev, error |-> drawn.error,
                     panic_in |-> drawn.panic_in, calls |-> drawn.calls]
    /\ UNCHANGED <<inputVars, arbiterVars, events, cbVars, handles, layout, pass, hist>>

(***************************************************************************)
(* SpecPhases: the frames of an application that declares, in every frame, *)
(* the same tree: a container over Buttons, VScrollContainers and          *)
(* SplitPaneContainers of Buttons.                                         *)
(***************************************************************************)
PhaseLeaves == {ButtonWidget(key("a"))}
PhaseInner ==
    PhaseLeaves
        \cup {VScrollContainer(key("scroll"), c) : c \in PhaseLeaves}
        \cup {SplitPaneContainer(key("inner"), l, r) : l \in PhaseLeaves, r \in PhaseLeaves}
PhaseTrees ==
    {BoxWidget(key("box"), contents) :
        contents \in UNION {[1..n -> PhaseInner] : n \in 1..MaxSiblings}}
        \cup {VScrollContainer(key("scroll"), c) : c \in PhaseInner}
        \cup {SplitPaneContainer(key("split"), l, r) : l \in PhaseInner, r \in PhaseInner}

PhasePlaces == {<<>>} \cup {<<k>> : k \in 1..MaxSiblings}
                   \cup {<<k, m>> : k \in 1..MaxSiblings, m \in 1..2}
WheelDeltas == {-10, 10}
PhaseEvents ==
    {PhaseEvent("none", <<>>, 0)}
        \cup {PhaseEvent(type, target, 0) :
                type \in {"MousePressed", "MouseReleased"}, target \in PhasePlaces}
        \cup {PhaseEvent("MouseWheel", target, d) : target \in PhasePlaces, d \in WheelDeltas}

PhasesStep ==
    \E w \in PhaseTrees, ev \in PhaseEvents :
        /\ IF ret = NoRet THEN TRUE ELSE ret.widget = w
        /\ PhasesFrame(w, ev)

SpecPhases == Init /\ [][PhasesStep]_vars

\* C32: no widget holds a live handle into the memory when it calls the
\* on_event or the draw of a child, and no frame ends in a borrow conflict.
C32_NoHandleHeldAcrossChildCall ==
    ret.op = "frame" =>
        /\ \A k \in DOMAIN ret.calls : ret.calls[k].live = EmptyBag
        /\ ret.error \notin {"already_borrowed", "already_mutably_borrowed"}

\* C33: in every frame VScrollContainer::draw finds its scroll state in the
\* memory, whichever widget consumed the events of the frame.
C33_ScrollDrawFindsState ==
    ret.op = "frame" =>
        ~(ret.error = "no_value_for_given_id"
            /\ ret.panic_in = In("VScrollContainer", "draw"))

=============================================================================
